---- MODULE Spec2Model ----
(***************************************************************************)
(* Calendar backend: the reminder store, the event/reminder API handlers   *)
(* that write it, and the two periodic jobs (check_reminders,              *)
(* cleanup_old_tokens) that APScheduler runs in the background.            *)
(*                                                                         *)
(* Time is counted in whole minutes.  A datetime that a handler holds is a *)
(* record [t, aware]: Python raises TypeError when a naive and an aware    *)
(* datetime are compared, and values loaded from a DateTime column are     *)
(* naive.                                                                  *)
(***************************************************************************)
EXTENDS Integers, Sequences, FiniteSets, TLC

\* ---------------------------------------------------------------- bounds
MaxTime == 2
MaxEvents == 2
MaxReminders == 2
MaxMinutes == 1
MaxRuns == 2
MaxSends == 2
MaxProcs == 2
\* token rows ever issued, and the last reading of the wall clock in a
\* specification of the tokens
MaxTokens == 3
MaxClock == 61
\* the minutes of an hour in which a minute is let pass
MaxOffset == 1
\* threads inside the rate limiter, the last reading of time.time(), seconds,
\* and the limit and window the decorator is given
MaxThreads == 2
MaxSeconds == 3
MaxAdmitted == 3
Limit == 2
Window == 2
\* the last day of the calendar of a call of generate_occurrences: 2024-06-30
Horizon == 181

\* ------------------------------------------------------ program constants
\* timedelta(minutes=1) added to "now" for the due query
LookaheadMinutes == 1
\* add_job passes no max_instances: APScheduler's default of one instance per job
MaxInstances == 1
\* PasswordResetToken(user_id, expires_in_hours=1)
ExpiresInHours == 1
\* EmailVerificationToken(user_id=..., expires_in_hours=24) of the seed
SeedExpiresInHours == 24
\* timedelta(hours=expires_in_hours), in the minutes of the wall clock
MinutesPerHour == 60

None == 0 - 1
\* a minutes_before input that is not a non-negative integer
Negative == 0 - 2

Times == 0..MaxTime
EventIds == 1..MaxEvents
ReminderIds == 1..MaxReminders
Slots == 1..MaxRuns
Users == {1}
\* the processes that can run the application
ProcIds == 1..MaxProcs
ValidTypes == {"email", "push", "sms"}
\* "other" stands for any string outside valid_types
NotificationTypes == ValidTypes \cup {"other"}
Jobs == {"check_reminders", "cleanup_tokens"}

VARIABLES
    now,          \* the wall clock, minutes
    users,        \* ids of the stored User rows
    events,       \* the events table: id -> row
    reminders,    \* the reminders table: id -> row
    rules,        \* the recurrence_rules table: event id -> the rule of the event
    links,        \* the event_categories table: event id -> ids of its categories
    tokens,       \* the expiring token rows (both kinds)
    nextEventId,  \* autoincrement of events.id
    nextReminderId,
    procs,        \* the processes that started a BackgroundScheduler
    run,          \* job executions of the schedulers: slot -> execution
    creq,         \* a create_reminder request between its event lookup and its insert
    sends,        \* history: successful external dispatches per reminder
    orphanSkipped,\* history: reminders a tick skipped for a missing event or user
    prevFailed,   \* history: reminders whose dispatch failed or raised in the last finished tick
    lost,         \* history: reminders dispatched but not committed when the process died
    conflict,     \* history: create_reminder answered a request with 409
    call,         \* a call of RecurrenceGenerator: its arguments and what it returned
    password_hash,\* users.password_hash: user id -> hash
    nextTokenId,  \* the next token string to be drawn
    preq,         \* a request_password_reset between its query and its commit
    accepted,     \* history: resets reset_password accepted, per token
    cleanupError, \* history: the last tick of cleanup_old_tokens that raised
    clock,        \* time.time(), seconds
    requests,     \* RateLimiter.requests: key -> list of request times
    threads,      \* the threads inside the rate_limit decorator
    admitted      \* history: the times of the requests let through, per key

vars == <<now, users, events, reminders, rules, links, tokens, nextEventId, nextReminderId,
          procs, run, creq, sends, orphanSkipped, prevFailed, lost, conflict, call,
          password_hash, nextTokenId, preq, accepted, cleanupError,
          clock, requests, threads, admitted>>

storeVars == <<users, events, reminders, rules, links, tokens, nextEventId, nextReminderId>>
histVars == <<sends, orphanSkipped, prevFailed, lost, conflict>>
authVars == <<password_hash, nextTokenId, preq, accepted, cleanupError>>
limiterVars == <<clock, requests, threads, admitted>>
\* the tables but the tokens
dataVars == <<users, events, reminders, rules, links, nextEventId, nextReminderId>>

\* ----------------------------------------------------------------- rows
NoEvent == [exists |-> FALSE, user_id |-> 0, start_datetime |-> 0, end_datetime |-> None]

NoReminder == [exists |-> FALSE, event_id |-> 0, reminder_time |-> 0,
               notification_sent |-> FALSE, notification_type |-> "email",
               minutes_before |-> None, is_relative |-> FALSE]

Reminder(e, t, type, mb, rel) ==
    [exists |-> TRUE, event_id |-> e, reminder_time |-> t,
     notification_sent |-> FALSE, notification_type |-> type,
     minutes_before |-> mb, is_relative |-> rel]

IdleRun == [pc |-> "idle", sched |-> 0, job |-> "none", current_time |-> 0,
            queue |-> <<>>, idx |-> 0, dirty |-> {},
            attempted |-> {}, failed |-> {}, raised |-> {}]

NoRequest == [active |-> FALSE, event_id |-> 0, start_datetime |-> 0]

Min(a, b) == IF a <= b THEN a ELSE b

Range(s) == {s[i] : i \in 1..Len(s)}

\* every ordering of a finite set, as sequences
Orderings(S) ==
    {q \in [1..Cardinality(S) -> S] : \A i, j \in 1..Cardinality(S) : i # j => q[i] # q[j]}

\* a datetime as a handler holds it
Dt(t, aware) == [t |-> t, aware |-> aware]
\* comparing a naive with an aware datetime raises TypeError
TypeErr(a, b) == a.aware # b.aware

EventExists(e) == e \in EventIds /\ events[e].exists
Stored(r) == reminders[r].exists

\* ------------------------------------------------------------- scheduler
\* the executions of job j that scheduler s has running
Running(s, j) == {i \in Slots : run[i].pc # "idle" /\ run[i].sched = s /\ run[i].job = j}

FreeSlot == CHOOSE i \in Slots : run[i].pc = "idle" /\ \A k \in Slots : run[k].pc = "idle" => i <= k

\* a scheduler that submits a due job whatever is running (max_instances unbounded)
CanSubmitAlways(s, j) == TRUE

\* APScheduler submits a due job unless max_instances executions of it are running
CanSubmit(s, j) == Cardinality(Running(s, j)) < MaxInstances

\* a due query that leaves out what a delivery log says was delivered already
DueQueryUndelivered(t) ==
    {r \in ReminderIds : Stored(r) /\ reminders[r].reminder_time <= t + LookaheadMinutes
                         /\ reminders[r].notification_sent = FALSE
                         /\ sends[r] = 0}

\* a due query that looks only at the minute of the tick and the next one
DueQueryWindow(t) ==
    {r \in ReminderIds : Stored(r) /\ reminders[r].reminder_time <= t + LookaheadMinutes
                         /\ reminders[r].reminder_time >= t
                         /\ reminders[r].notification_sent = FALSE}

\* a due query that leaves out the reminders due exactly at the lookahead's edge and
\* at the tick's own minute
DueQueryPast(t) ==
    {r \in ReminderIds : Stored(r) /\ reminders[r].reminder_time < t
                         /\ reminders[r].notification_sent = FALSE}

\* the due query of check_reminders
DueQuery(t) ==
    {r \in ReminderIds : Stored(r) /\ reminders[r].reminder_time <= t + LookaheadMinutes
                         /\ reminders[r].notification_sent = FALSE}

\* check_reminders up to the start of its loop
TickStart(s) ==
    /\ s \in procs
    /\ CanSubmit(s, "check_reminders")
    /\ \E i \in Slots : run[i].pc = "idle"
    /\ \E q \in Orderings(DueQuery(now)) :
         run' = [run EXCEPT ![FreeSlot] =
                   [IdleRun EXCEPT !.pc = "loop", !.sched = s, !.job = "check_reminders",
                                   !.current_time = now, !.queue = q, !.idx = 1]]
    /\ UNCHANGED <<now, storeVars, procs, creq, histVars, call, authVars, limiterVars>>

AtReminder(i) == run[i].pc = "loop" /\ run[i].idx <= Len(run[i].queue)
Current(i) == run[i].queue[run[i].idx]

\* "continue": on to the next selected reminder
Advanced(i) == [run[i] EXCEPT !.idx = @ + 1]

\* a loop body without the "not due yet" test: only a vanished row is passed over
IsNotDueNever(i) == ~Stored(Current(i))

\* the reminder is not due yet, or its row is gone
IsNotDue(i) ==
    IF Stored(Current(i))
    THEN reminders[Current(i)].reminder_time > run[i].current_time
    ELSE TRUE

\* the reminder's event, or the event's user, is missing
IsOrphan(i) ==
    IF EventExists(reminders[Current(i)].event_id)
    THEN events[reminders[Current(i)].event_id].user_id \notin users
    ELSE TRUE

\* a skip that closes an orphan by setting its flag
SkippedRowsMarked(i) ==
    [reminders EXCEPT ![Current(i)].notification_sent = IF IsNotDue(i) THEN @ ELSE TRUE]

\* what a skipped reminder leaves in the table: nothing is written
SkippedRows(i) == reminders

\* the "continue" branches of the loop body: not due yet, or no event, or no user
TickSkip(i) ==
    /\ AtReminder(i)
    /\ IF IsNotDue(i) THEN TRUE ELSE IsOrphan(i)
    /\ run' = [run EXCEPT ![i] = Advanced(i)]
    /\ reminders' = SkippedRows(i)
    /\ orphanSkipped' = IF IsNotDue(i) THEN orphanSkipped ELSE orphanSkipped \cup {Current(i)}
    /\ UNCHANGED <<now, users, rules, links, events, tokens, nextEventId, nextReminderId, procs, creq,
                   sends, prevFailed, lost, conflict, call, authVars, limiterVars>>

Dispatchable(i) == AtReminder(i) /\ ~IsNotDue(i) /\ ~IsOrphan(i)

\* notification_sent = True, reminder.notification_sent = True: the flag is set
\* on the session's object and waits for the commit
MarkedForCommit(i) ==
    [run[i] EXCEPT !.pc = "commit", !.dirty = {Current(i)},
                   !.attempted = @ \cup {Current(i)}]

\* the email sender returned True
TickDispatchOk(i) ==
    /\ Dispatchable(i)
    /\ reminders[Current(i)].notification_type = "email"
    /\ run' = [run EXCEPT ![i] = MarkedForCommit(i)]
    /\ sends' = [sends EXCEPT ![Current(i)] = Min(@ + 1, MaxSends)]
    /\ UNCHANGED <<now, storeVars, procs, creq, orphanSkipped, prevFailed, lost, conflict, call, authVars, limiterVars>>

\* a failed send that sets the flag all the same
DispatchFailedMarks(i) ==
    [MarkedForCommit(i) EXCEPT !.failed = @ \cup {Current(i)}]

\* the email sender returned False: logged, nothing written
DispatchFailed(i) ==
    [run[i] EXCEPT !.idx = @ + 1, !.attempted = @ \cup {Current(i)},
                   !.failed = @ \cup {Current(i)}]

TickDispatchFail(i) ==
    /\ Dispatchable(i)
    /\ reminders[Current(i)].notification_type = "email"
    /\ run' = [run EXCEPT ![i] = DispatchFailed(i)]
    /\ UNCHANGED <<now, storeVars, procs, creq, histVars, call, authVars, limiterVars>>

\* push, sms and unknown types: no sender is called, the flag is set at once
TickDispatchStub(i) ==
    /\ Dispatchable(i)
    /\ reminders[Current(i)].notification_type # "email"
    /\ run' = [run EXCEPT ![i] = MarkedForCommit(i)]
    /\ UNCHANGED <<now, storeVars, procs, creq, histVars, call, authVars, limiterVars>>

\* db.session.commit(): the session's pending flags reach the table
Committed(i) ==
    [r \in ReminderIds |->
        IF r \in run[i].dirty /\ Stored(r)
        THEN [reminders[r] EXCEPT !.notification_sent = TRUE]
        ELSE reminders[r]]

TickCommit(i) ==
    /\ run[i].pc = "commit"
    /\ reminders' = Committed(i)
    /\ run' = [run EXCEPT ![i] = [run[i] EXCEPT !.pc = "loop", !.idx = @ + 1, !.dirty = {}]]
    /\ UNCHANGED <<now, users, rules, links, events, tokens, nextEventId, nextReminderId, procs, creq,
                   histVars, call, authVars, limiterVars>>

Finished(i) == run[i].pc = "loop" /\ run[i].idx > Len(run[i].queue)

\* the reminders whose processing failed or raised in this execution
Failures(i) == run[i].failed \cup run[i].raised

\* the loop is over and check_reminders returns
TickFinish(i) ==
    /\ Finished(i)
    /\ prevFailed' = Failures(i)
    /\ run' = [run EXCEPT ![i] = IdleRun]
    /\ UNCHANGED <<now, storeVars, procs, creq, sends, orphanSkipped, lost, conflict, call, authVars, limiterVars>>

\* ------------------------------------------------- faults inside a tick
\* the except branch of the loop body: log, db.session.rollback(), next reminder
RolledBack(i) ==
    [run[i] EXCEPT !.pc = "loop", !.idx = @ + 1, !.dirty = {},
                   !.raised = @ \cup {Current(i)}]

\* a rollback that also takes back the flags this run committed before
AfterRollbackUndoes(i) ==
    [r \in ReminderIds |->
        IF r \in run[i].attempted
        THEN [reminders[r] EXCEPT !.notification_sent = FALSE]
        ELSE reminders[r]]

\* what db.session.rollback() leaves in the table
AfterRollback(i) == reminders

\* a query of the loop body raises
TickRaise(i) ==
    /\ AtReminder(i)
    /\ ~IsNotDue(i)
    /\ run' = [run EXCEPT ![i] = RolledBack(i)]
    /\ reminders' = AfterRollback(i)
    /\ UNCHANGED <<now, users, rules, links, events, tokens, nextEventId, nextReminderId, procs, creq,
                   histVars, call, authVars, limiterVars>>

\* db.session.commit() raises
TickCommitFail(i) ==
    /\ run[i].pc = "commit"
    /\ run' = [run EXCEPT ![i] = RolledBack(i)]
    /\ reminders' = AfterRollback(i)
    /\ UNCHANGED <<now, users, rules, links, events, tokens, nextEventId, nextReminderId, procs, creq,
                   histVars, call, authVars, limiterVars>>

\* the reminders a dying process had dispatched by email but not committed
Uncommitted(s) ==
    UNION {run[i].dirty : i \in {k \in Slots : run[k].sched = s /\ run[k].pc = "commit"}}

\* the process of scheduler s dies and is started again: its executions are gone,
\* the table keeps what was committed
Crash(s) ==
    /\ s \in procs
    /\ \E i \in Slots : run[i].sched = s /\ run[i].pc # "idle"
    /\ lost' = lost \cup {r \in Uncommitted(s) : Stored(r) /\ reminders[r].notification_type = "email"}
    /\ run' = [i \in Slots |-> IF run[i].sched = s THEN IdleRun ELSE run[i]]
    /\ UNCHANGED <<now, storeVars, procs, creq, sends, orphanSkipped, prevFailed, conflict, call, authVars, limiterVars>>

\* ------------------------------------------------------- token cleanup
\* a sweep that takes the used tokens with the expired ones
ExpiredOrUsed(t) == {k \in tokens : k.expires_at < t \/ k.used}

Expired(t) == {k \in tokens : k.expires_at < t}

CleanupStart(s) ==
    /\ s \in procs
    /\ CanSubmit(s, "cleanup_tokens")
    /\ \E i \in Slots : run[i].pc = "idle"
    /\ run' = [run EXCEPT ![FreeSlot] =
                 [IdleRun EXCEPT !.pc = "sweep", !.sched = s, !.job = "cleanup_tokens",
                                 !.current_time = now]]
    /\ UNCHANGED <<now, storeVars, procs, creq, histVars, call, authVars, limiterVars>>

\* both queries, the deletes and the single commit
CleanupCommit(i) ==
    /\ run[i].pc = "sweep"
    /\ tokens' = tokens \ Expired(run[i].current_time)
    /\ run' = [run EXCEPT ![i] = IdleRun]
    /\ UNCHANGED <<now, users, rules, links, events, reminders, nextEventId, nextReminderId, procs, creq,
                   histVars, call, authVars, limiterVars>>

\* an error raised inside the try of cleanup_old_tokens, by a delete or by the
\* commit that flushes the deletes: the except logs it, nothing was committed
\* and the session ends with the application context
CleanupRaise(i) ==
    /\ run[i].pc = "sweep"
    /\ \E k \in Expired(run[i].current_time) :
          cleanupError' = [raised |-> TRUE, token |-> k.token, at |-> run[i].current_time]
    /\ run' = [run EXCEPT ![i] = IdleRun]
    /\ UNCHANGED <<now, storeVars, procs, creq, histVars, call, password_hash, nextTokenId,
                   preq, accepted, limiterVars>>

\* ------------------------------------------------- passwords and tokens
TokenIds == 1..MaxTokens
NoCleanupError == [raised |-> FALSE, token |-> 0, at |-> 0]
NoResetRequest == [active |-> FALSE, user_id |-> 0, old_tokens |-> {}]
\* the user a request names with an email no account has
UnknownUser == 0

\* a password of a request: its length and the classes of its characters
Password(n, classes) == [length |-> n, classes |-> classes]
NoPassword == Password(0, {})
NewPasswords ==
    {NoPassword, Password(5, {"upper", "lower", "digit"}), Password(9, {"lower", "digit"}),
     Password(9, {"upper", "lower", "digit"})}

validate_password(p) ==
    /\ p # NoPassword
    /\ p.length >= 8
    /\ "upper" \in p.classes
    /\ "lower" \in p.classes
    /\ "digit" \in p.classes

\* generate_password_hash
Hash(p) == [hash_of |-> p]

\* the row a token constructor builds: a fresh random string, and an expiry
\* expires_in_hours after utcnow()
NewToken(kind, u, hours) ==
    [token |-> nextTokenId, kind |-> kind, user_id |-> u,
     expires_at |-> now + hours * MinutesPerHour, used |-> FALSE]

is_expired(k) == now > k.expires_at

\* a token that passes for valid although it was used
is_valid_unused_or_not(k) == ~is_expired(k)

is_valid(k) == ~k.used /\ ~is_expired(k)

\* filter_by(user_id=..., used=False).all()
Unused(kind, u) == {k \in tokens : k.kind = kind /\ k.user_id = u /\ ~k.used}

\* a request that leaves the earlier tokens as they are
MarkedUsedNone(ks) == tokens

\* mark_as_used on the rows ks
MarkedUsed(ks) == {IF k \in ks THEN [k EXCEPT !.used = TRUE] ELSE k : k \in tokens}

\* request_password_reset for the account of user u, or for an unknown email
RequestPasswordReset(u) ==
    /\ nextTokenId <= MaxTokens
    /\ IF u \in users
       THEN /\ tokens' = MarkedUsed(Unused("password_reset", u))
                            \cup {NewToken("password_reset", u, ExpiresInHours)}
            /\ nextTokenId' = nextTokenId + 1
       ELSE UNCHANGED <<tokens, nextTokenId>>
    /\ UNCHANGED <<now, dataVars, procs, run, creq, histVars, call, password_hash, preq,
                   accepted, cleanupError, limiterVars>>

\* request_password_reset served beside another request: the query for the unused
\* tokens of the user ...
RequestResetLookup(u) ==
    /\ ~preq.active
    /\ u \in users
    /\ nextTokenId <= MaxTokens
    /\ preq' = [active |-> TRUE, user_id |-> u,
                old_tokens |-> {k.token : k \in Unused("password_reset", u)}]
    /\ UNCHANGED <<now, storeVars, procs, run, creq, histVars, call, password_hash,
                   nextTokenId, accepted, cleanupError, limiterVars>>

\* ... and the marking of the rows it found, the new token and the commit; a row
\* that cleanup_old_tokens deleted in between fails the flush and all is rolled back
RequestResetCommit ==
    /\ preq.active
    /\ nextTokenId <= MaxTokens
    /\ LET old == {k \in tokens : k.kind = "password_reset" /\ k.token \in preq.old_tokens}
       IN  IF {k.token : k \in old} = preq.old_tokens
           THEN /\ tokens' = MarkedUsed(old)
                                \cup {NewToken("password_reset", preq.user_id, ExpiresInHours)}
                /\ nextTokenId' = nextTokenId + 1
           ELSE UNCHANGED <<tokens, nextTokenId>>
    /\ preq' = NoResetRequest
    /\ UNCHANGED <<now, dataVars, procs, run, creq, histVars, call, password_hash,
                   accepted, cleanupError, limiterVars>>

\* reset_password with the token string tok and the new password p
ResetPassword(tok, p) ==
    LET found == {k \in tokens : k.kind = "password_reset" /\ k.token = tok}
    IN  /\ IF /\ validate_password(p)
              /\ found # {}
              /\ \A k \in found : is_valid(k) /\ k.user_id \in users
           THEN /\ password_hash' =
                      [u \in Users |-> IF \E k \in found : k.user_id = u
                                       THEN Hash(p) ELSE password_hash[u]]
                /\ tokens' = MarkedUsed(found)
                /\ accepted' = [accepted EXCEPT ![tok] = Min(@ + 1, MaxTokens)]
           ELSE UNCHANGED <<password_hash, tokens, accepted>>
        /\ UNCHANGED <<now, dataVars, procs, run, creq, histVars, call, nextTokenId, preq,
                       cleanupError, limiterVars>>

\* resend_verification of the unverified user u; the default expires_in_hours of
\* the token is either of the values the repository passes to a token
ResendVerification(u) ==
    /\ u \in users
    /\ nextTokenId <= MaxTokens
    /\ \E hours \in {ExpiresInHours, SeedExpiresInHours} :
          tokens' = MarkedUsed(Unused("email_verification", u))
                      \cup {NewToken("email_verification", u, hours)}
    /\ nextTokenId' = nextTokenId + 1
    /\ UNCHANGED <<now, dataVars, procs, run, creq, histVars, call, password_hash, preq,
                   accepted, cleanupError, limiterVars>>

\* the wall clock of a specification of the tokens: a minute passes at the
\* beginning of an hour, or an hour passes
Elapse(d) ==
    /\ d \in {1, MinutesPerHour}
    /\ d = 1 => now % MinutesPerHour < MaxOffset
    /\ now + d <= MaxClock
    /\ now' = now + d
    /\ UNCHANGED <<storeVars, procs, run, creq, histVars, call, authVars, limiterVars>>

\* ---------------------------------------------------------- rate limiter
ThreadIds == 1..MaxThreads
Keys == {"ip:10.0.0.1", "ip:10.0.0.2"}
IdleThread == [pc |-> "idle", key |-> "", now |-> 0, kept |-> <<>>]

\* the decorator calls is_rate_limited(key, limit, window): now = time.time()
Enter(t, key) ==
    /\ threads[t].pc = "idle"
    /\ Len(admitted["ip:10.0.0.1"]) + Len(admitted["ip:10.0.0.2"]) < MaxAdmitted
    /\ threads' = [threads EXCEPT ![t] = [pc |-> "filter", key |-> key, now |-> clock,
                                           kept |-> <<>>]]
    /\ UNCHANGED <<now, storeVars, procs, run, creq, histVars, call, authVars, clock,
                   requests, admitted>>

\* the times the comprehension keeps: req_time > window_start
Kept(list, t) ==
    LET Recent(x) == x > threads[t].now - Window IN SelectSeq(list, Recent)

\* the list comprehension over self.requests[key] ...
Filter(t) ==
    /\ threads[t].pc = "filter"
    /\ threads' = [threads EXCEPT ![t].pc = "store",
                                  ![t].kept = Kept(requests[threads[t].key], t)]
    /\ UNCHANGED <<now, storeVars, procs, run, creq, histVars, call, authVars, clock,
                   requests, admitted>>

\* ... and its assignment to self.requests[key]
Store(t) ==
    /\ threads[t].pc = "store"
    /\ requests' = [requests EXCEPT ![threads[t].key] = threads[t].kept]
    /\ threads' = [threads EXCEPT ![t].pc = "check"]
    /\ UNCHANGED <<now, storeVars, procs, run, creq, histVars, call, authVars, clock,
                   admitted>>

\* len(self.requests[key]) >= limit: return True, and the decorator answers 429
Check(t) ==
    /\ threads[t].pc = "check"
    /\ threads' = [threads EXCEPT ![t] = IF Len(requests[threads[t].key]) >= Limit
                                         THEN IdleThread
                                         ELSE [threads[t] EXCEPT !.pc = "append"]]
    /\ UNCHANGED <<now, storeVars, procs, run, creq, histVars, call, authVars, clock,
                   requests, admitted>>

\* self.requests[key].append(now); return False, and the view function runs
AppendRequest(t) ==
    /\ threads[t].pc = "append"
    /\ requests' = [requests EXCEPT ![threads[t].key] = Append(@, threads[t].now)]
    /\ admitted' = [admitted EXCEPT ![threads[t].key] = Append(@, threads[t].now)]
    /\ threads' = [threads EXCEPT ![t] = IdleThread]
    /\ UNCHANGED <<now, storeVars, procs, run, creq, histVars, call, authVars, clock>>

\* a second of time.time() passes
Second ==
    /\ clock < MaxSeconds
    /\ clock' = clock + 1
    /\ UNCHANGED <<now, storeVars, procs, run, creq, histVars, call, authVars, requests,
                   threads, admitted>>

\* ------------------------------------------------------ a second process
\* create_app in a process whose module-level scheduler is not running yet: the
\* scheduler is started and both jobs are added
StartScheduler(s) ==
    /\ s \in ProcIds \ procs
    /\ procs' = procs \cup {s}
    /\ UNCHANGED <<now, storeVars, run, creq, histVars, call, authVars, limiterVars>>

\* ---------------------------------------------------------------- clock
Advance ==
    /\ now < MaxTime
    /\ now' = now + 1
    /\ UNCHANGED <<storeVars, procs, run, creq, histVars, call, authVars, limiterVars>>

\* ------------------------------------------------------------ API inputs
\* an ISO datetime string of a request: its instant, and whether it ends in "Z" or
\* an offset
Iso(t, z) == [t |-> t, z |-> z]
NoIso == [t |-> None, z |-> FALSE]
IsoInputs == {Iso(t, z) : t \in Times, z \in BOOLEAN}
MinutesInputs == {None, Negative} \cup (0..MaxMinutes)

\* the JSON of one reminder: minutes_before (None when absent), reminder_time
\* (NoIso when absent or empty) and notification_type
ReminderInputs ==
    [minutes_before : MinutesInputs, reminder_time : {NoIso} \cup IsoInputs,
     notification_type : NotificationTypes]

\* a test that takes every reminder_time string for absent
GivenNever(d) == FALSE

Given(d) == d # NoIso

\* validate_datetime_string keeps the offset of the string: "...Z" parses to an
\* aware datetime, a string without offset to a naive one
Parsed(d) == Dt(d.t, d.z)

\* datetime.utcnow() and datetime.now(timezone.utc)
\* a clock read that answers with a time before every reminder
UtcNowStopped == Dt(0 - 1, FALSE)

UtcNow == Dt(now, FALSE)
NowUtcAware == Dt(now, TRUE)

\* a sign test that lets every minutes_before through
BadMinutesNever(mb) == FALSE

\* "not isinstance(minutes_before, int) or minutes_before < 0"
BadMinutes(mb) == mb < 0

RemindersOf(e) == {r \in ReminderIds : Stored(r) /\ reminders[r].event_id = e}

\* ------------------------------------------------------------ JSON values
\* a value of a request field: null (or absent), a number, a string
Null == [k |-> "null", n |-> 0, s |-> ""]
Num(n) == [k |-> "int", n |-> n, s |-> ""]
Str(s) == [k |-> "str", n |-> 0, s |-> s]

\* a datetime of a column, as the day it falls on
Date(n) == [k |-> "date", n |-> n, s |-> ""]

\* Python's truth value of it
Truthy(x) == (x.k = "int" /\ x.n # 0) \/ (x.k = "str" /\ x.s # "") \/ x.k = "date"
IsInt(x) == x.k = "int"

\* ------------------------------------------------- validate_recurrence_rule
\* the keys of FREQUENCY_MAP and of WEEKDAY_MAP
Frequencies == {"DAILY", "WEEKLY", "MONTHLY", "YEARLY"}
WeekdayCodes == <<"MON", "TUE", "WED", "THU", "FRI", "SAT", "SUN">>
Weekdays == Range(WeekdayCodes)

\* rule_data: days_of_week is the list of codes (a string split at its commas),
\* empty when the key is absent or empty; interval is Num(1) when the key is absent
NoRuleData ==
    [frequency |-> Null, interval |-> Num(1), days_of_week |-> <<>>, day_of_month |-> Null,
     week_of_month |-> Null, day_of_week |-> Null, end_date |-> Null,
     occurrence_count |-> Null]

\* no row in recurrence_rules
NoRule == [exists |-> FALSE, data |-> NoRuleData]

\* no call of the generator
NoCall == [op |-> "none"]

IsFrequency(d, f) == d.frequency = Str(f)

\* a range test that nothing fails
OutOfRangeNever(x, lo, hi) == FALSE

\* "x and (not isinstance(x, int) or x < lo or x > hi)"
OutOfRange(x, lo, hi) == Truthy(x) /\ (~IsInt(x) \/ x.n < lo \/ x.n > hi)

validate_recurrence_rule(d) ==
    LET frequency ==
            IF ~Truthy(d.frequency) THEN <<"Frequency is required">>
            ELSE IF d.frequency.k # "str" \/ d.frequency.s \notin Frequencies
                 THEN <<"Invalid frequency">>
                 ELSE <<>>
        interval ==
            IF ~IsInt(d.interval) \/ d.interval.n < 1
            THEN <<"Interval must be a positive integer">> ELSE <<>>
        \* one message for each code that is no key of WEEKDAY_MAP
        weekly ==
            IF IsFrequency(d, "WEEKLY")
            THEN [k \in 1..Len(SelectSeq(d.days_of_week, LAMBDA day : day \notin Weekdays))
                    |-> "Invalid day of week"]
            ELSE <<>>
        dayOfMonth ==
            IF IsFrequency(d, "MONTHLY") /\ OutOfRange(d.day_of_month, 1, 31)
            THEN <<"Day of month must be between 1 and 31">> ELSE <<>>
        weekOfMonth ==
            IF IsFrequency(d, "MONTHLY") /\ OutOfRange(d.week_of_month, 1, 5)
            THEN <<"Week of month must be between 1 and 5">> ELSE <<>>
        both ==
            IF Truthy(d.end_date) /\ Truthy(d.occurrence_count)
            THEN <<"Cannot specify both end_date and occurrence_count">> ELSE <<>>
        count ==
            IF Truthy(d.occurrence_count)
               /\ (~IsInt(d.occurrence_count) \/ d.occurrence_count.n < 1)
            THEN <<"Occurrence count must be a positive integer">> ELSE <<>>
    IN  frequency \o interval \o weekly \o dayOfMonth \o weekOfMonth \o both \o count

\* ------------------------------------------------------ generate_occurrences
\* the days of 2024 counted from Monday 2024-01-01 (day 0); the time of day of
\* every datetime of a call is that of the event's start
MonthLengths == <<31, 29, 31, 30, 31, 30, 31, 31, 30, 31, 30, 31>>

RECURSIVE MonthStart(_)
MonthStart(m) == IF m = 1 THEN 0 ELSE MonthStart(m - 1) + MonthLengths[m - 1]

MonthOf(d) == CHOOSE m \in 1..12 : MonthStart(m) <= d /\ d < MonthStart(m) + MonthLengths[m]
DayOfMonth(d) == d - MonthStart(MonthOf(d)) + 1
WeekdayOf(d) == d % 7

Least(S) == CHOOSE x \in S : \A y \in S : x <= y

RECURSIVE SortedSeq(_)
SortedSeq(S) == IF S = {} THEN <<>> ELSE <<Least(S)>> \o SortedSeq(S \ {Least(S)})

\* WEEKDAY_MAP
WeekdayNumber(code) == CHOOSE i \in 0..6 : WeekdayCodes[i + 1] = code

\* no start_date or end_date argument
NoDate == Null

\* relativedelta(years=2) from a day of 2024
TwoYears == 731

\* the window of the call
WindowStart(c) == IF c.start_date = NoDate THEN c.event.start_datetime ELSE c.start_date.n
WindowEnd(c) == IF c.end_date = NoDate THEN WindowStart(c) + TwoYears ELSE c.end_date.n

\* "recurrence_rule.interval or 1"
IntervalOf(rule) == IF Truthy(rule.interval) THEN rule.interval.n ELSE 1

\* an end condition that is always the end of the window
EndConditionWindow(c) == [kind |-> "until", n |-> WindowEnd(c)]

\* the end condition handed to rrule: until, or count
EndCondition(c) ==
    IF Truthy(c.rule.end_date) THEN [kind |-> "until", n |-> c.rule.end_date.n]
    ELSE IF Truthy(c.rule.occurrence_count)
         THEN [kind |-> "count", n |-> Min(c.rule.occurrence_count.n, c.max_occurrences)]
         ELSE [kind |-> "until", n |-> WindowEnd(c)]

\* a WEEKLY rule whose days_of_week is never handed to rrule
WeeklyByWeekdayNone(rule) == <<>>

\* byweekday of a WEEKLY rule: the numbers of the codes of days_of_week that
\* are keys of WEEKDAY_MAP, in the order of the string
WeeklyByWeekday(rule) ==
    IF IsFrequency(rule, "WEEKLY")
    THEN LET codes == SelectSeq(rule.days_of_week, LAMBDA day : day \in Weekdays)
         IN  [i \in 1..Len(codes) |-> WeekdayNumber(codes[i])]
    ELSE <<>>

\* bymonthday of a MONTHLY rule, 0 when none is handed over
MonthlyByMonthDay(rule) ==
    IF IsFrequency(rule, "MONTHLY") /\ Truthy(rule.day_of_month) THEN rule.day_of_month.n
    ELSE 0

\* a MONTHLY rule with week_of_month and a known day_of_week hands rrule the
\* string "<weekday>(<week>)" as byweekday
MonthlyByWeekdayString(rule) ==
    /\ IsFrequency(rule, "MONTHLY")
    /\ ~Truthy(rule.day_of_month)
    /\ Truthy(rule.week_of_month)
    /\ Truthy(rule.day_of_week)
    /\ rule.day_of_week.s \in Weekdays

\* rrule keeps byweekday as a sorted tuple of distinct weekdays
ByWeekdayAsGiven(by) == by

RruleByWeekday(by) == SortedSeq(Range(by))

\* rrule takes the day of the month, a month without it has no date
MonthDayClamped(m, day) == <<MonthStart(m) + Min(day, MonthLengths[m]) - 1>>

MonthDay(m, day) == IF day <= MonthLengths[m] THEN <<MonthStart(m) + day - 1>> ELSE <<>>

\* the dates of rrule's k-th period (day, week from Monday, month, year) after
\* the one of dtstart
PeriodDates(rule, dtstart, by, bymonthday, k) ==
    IF IsFrequency(rule, "DAILY") THEN <<dtstart + k * IntervalOf(rule)>>
    ELSE IF IsFrequency(rule, "WEEKLY")
    THEN LET days == IF by = <<>> THEN <<WeekdayOf(dtstart)>> ELSE RruleByWeekday(by)
             monday == (dtstart - WeekdayOf(dtstart)) + 7 * IntervalOf(rule) * k
         IN  [i \in 1..Len(days) |-> monday + days[i]]
    ELSE IF IsFrequency(rule, "MONTHLY")
    THEN LET m == MonthOf(dtstart) + k * IntervalOf(rule)
             day == IF bymonthday = 0 THEN DayOfMonth(dtstart) ELSE bymonthday
         IN  IF m <= 12 THEN MonthDay(m, day) ELSE <<>>
    ELSE IF k = 0 THEN <<dtstart>> ELSE <<>>

\* the last period that begins in the calendar
LastPeriod(rule, dtstart) ==
    IF IsFrequency(rule, "DAILY") THEN (Horizon - dtstart) \div IntervalOf(rule)
    ELSE IF IsFrequency(rule, "WEEKLY")
    THEN (Horizon - (dtstart - WeekdayOf(dtstart))) \div (7 * IntervalOf(rule))
    ELSE IF IsFrequency(rule, "MONTHLY")
    THEN (MonthOf(Horizon) - MonthOf(dtstart)) \div IntervalOf(rule)
    ELSE 0

\* the dates rrule iterates over, period after period from lo to hi, none
\* before dtstart
RECURSIVE RruleDates(_, _, _, _, _, _)
RruleDates(rule, dtstart, by, bymonthday, lo, hi) ==
    IF lo > hi THEN <<>>
    ELSE IF lo = hi
    THEN SelectSeq(PeriodDates(rule, dtstart, by, bymonthday, lo),
                   LAMBDA d : d >= dtstart /\ d <= Horizon)
    ELSE RruleDates(rule, dtstart, by, bymonthday, lo, (lo + hi) \div 2)
         \o RruleDates(rule, dtstart, by, bymonthday, (lo + hi) \div 2 + 1, hi)

\* the iteration ends at the first date after until, or after count dates
RruleEnded(dates, cond) ==
    IF cond.kind = "count" THEN SubSeq(dates, 1, Min(cond.n, Len(dates)))
    ELSE LET late == {i \in 1..Len(dates) : dates[i] > cond.n}
         IN  IF late = {} THEN dates ELSE SubSeq(dates, 1, Least(late) - 1)

\* rrule(**rrule_params) of the call
Rrule(c) ==
    RruleEnded(RruleDates(c.rule, c.event.start_datetime, WeeklyByWeekday(c.rule),
                          MonthlyByMonthDay(c.rule), 0,
                          LastPeriod(c.rule, c.event.start_datetime)),
               EndCondition(c))

\* the end of an occurrence that is the end of the event
OccurrenceEndOfEvent(event, occurrence_start) == event.end_datetime

\* a duration of zero counts as none
OccurrenceEnd(event, occurrence_start) ==
    IF event.end_datetime # None /\ event.end_datetime - event.start_datetime # 0
    THEN occurrence_start + (event.end_datetime - event.start_datetime)
    ELSE None

\* the loop: dates outside the window are passed over, the loop ends when the
\* list has max_occurrences elements
Occurrences(c) ==
    LET inside == SelectSeq(Rrule(c), LAMBDA d : ~(d < WindowStart(c) \/ d > WindowEnd(c)))
        kept == IF Len(inside) = 0 THEN 0
                ELSE IF c.max_occurrences <= 1 THEN 1
                ELSE Min(c.max_occurrences, Len(inside))
    IN  [i \in 1..kept |->
            [start_datetime |-> inside[i], end_datetime |-> OccurrenceEnd(c.event, inside[i])]]

\* FREQUENCY_MAP: the values are dateutil's constants YEARLY = 0, MONTHLY = 1,
\* WEEKLY = 2, DAILY = 3
FrequencyConstant(f) ==
    IF f = "YEARLY" THEN 0 ELSE IF f = "MONTHLY" THEN 1 ELSE IF f = "WEEKLY" THEN 2 ELSE 3

\* "if not freq": the frequency is no key of FREQUENCY_MAP, or its constant is 0
NotFreq(rule) ==
    \/ rule.frequency.k # "str" \/ rule.frequency.s \notin Frequencies
    \/ FrequencyConstant(rule.frequency.s) = 0

\* a function that falls back only when it is given no rule
ReturnsEventWithoutRule(c) == ~c.has_rule

\* [event]: without a rule, when "not freq", or when rrule raises
ReturnsEvent(c) ==
    \/ ~c.has_rule
    \/ NotFreq(c.rule)
    \/ MonthlyByWeekdayString(c.rule)

generate_occurrences(c) ==
    IF ReturnsEvent(c)
    THEN [fallback |-> TRUE,
          list |-> <<[start_datetime |-> c.event.start_datetime,
                      end_datetime |-> c.event.end_datetime]>>]
    ELSE [fallback |-> FALSE, list |-> Occurrences(c)]

\* ---------------------------------------------------------- create_event
\* the reminder loop of create_event for one entry: "ok" with the row to add,
\* or the request is refused
EventReminderCheck(start, in) ==
    LET mb == in.minutes_before
        rt == in.reminder_time
    IN  IF ~Given(rt) /\ mb = None THEN [ok |-> FALSE, row |-> NoReminder]
        ELSE IF Given(rt) /\ mb # None THEN [ok |-> FALSE, row |-> NoReminder]
        ELSE IF mb # None
        THEN IF BadMinutes(mb) THEN [ok |-> FALSE, row |-> NoReminder]
             ELSE IF start - mb <= now THEN [ok |-> FALSE, row |-> NoReminder]
             ELSE [ok |-> TRUE,
                   row |-> Reminder(0, start - mb, in.notification_type, mb, TRUE)]
        \* an absolute time is made aware before it is compared
        ELSE IF rt.t <= now THEN [ok |-> FALSE, row |-> NoReminder]
             ELSE IF rt.t >= start THEN [ok |-> FALSE, row |-> NoReminder]
             ELSE [ok |-> TRUE,
                   row |-> Reminder(0, rt.t, in.notification_type, None, FALSE)]

\* the categories of the user; an id outside is one the query does not find
Categories == {1}
CategoryIds == {1, 2}

\* the recurrence_rule of a request: the key absent, null (or {}), or an object
AbsentRule == [kind |-> "absent", data |-> NoRuleData]
NullRule == [kind |-> "null", data |-> NoRuleData]
RuleOf(d) == [kind |-> "data", data |-> d]

\* an end_date string that validate_datetime_string cannot parse: its second
\* result, the message, is what the handlers assign to the DateTime column
UnparsedDate == Str("not a date")

\* the commit refuses the row
CommitRaises(rule) == rule.kind = "data" /\ rule.data.end_date = UnparsedDate

\* a request that ends without commit keeps what the session had assigned
AfterErrorKeeps(stored, pending) == pending

\* a request that ends without commit: the rollback of the handler's except, or
\* the end of the request's session, discards what the handler had assigned
AfterError(stored, pending) == stored

\* the checks come first, in this order; the rows are added and flushed after them
CreateEventStatus(start, end, ins, cats, rule) ==
    IF Given(end) /\ end.t <= start.t THEN 400
    ELSE IF ~(cats \subseteq Categories) THEN 400
    ELSE IF rule.kind = "data" /\ validate_recurrence_rule(rule.data) # <<>> THEN 400
    ELSE IF \E k \in 1..Len(ins) : ~EventReminderCheck(start.t, ins[k]).ok THEN 400
    ELSE IF CommitRaises(rule) THEN 500
    ELSE 201

\* what the session holds when the handler returns: nothing new after a failed
\* check, the added rows after the flush
CreateEventEvents(start, end, status) ==
    IF status = 400 THEN events
    ELSE [events EXCEPT ![nextEventId] =
            [exists |-> TRUE, user_id |-> 1, start_datetime |-> start.t,
             end_datetime |-> end.t]]

CreateEventReminders(start, ins, status) ==
    IF status = 400 THEN reminders
    ELSE [r \in ReminderIds |->
            IF r >= nextReminderId /\ r < nextReminderId + Len(ins)
            THEN [EventReminderCheck(start.t, ins[r - nextReminderId + 1]).row
                    EXCEPT !.event_id = nextEventId]
            ELSE reminders[r]]

CreateEventRules(rule, status) ==
    IF status # 400 /\ rule.kind = "data"
    THEN [rules EXCEPT ![nextEventId] = [exists |-> TRUE, data |-> rule.data]]
    ELSE rules

CreateEventLinks(cats, status) ==
    IF status = 400 THEN links ELSE [links EXCEPT ![nextEventId] = cats]

\* the whole handler
CreateEventFull(start, end, ins, cats, rule) ==
    LET status == CreateEventStatus(start, end, ins, cats, rule)
    IN  /\ nextEventId <= MaxEvents
        /\ nextReminderId + Len(ins) <= MaxReminders + 1
        /\ IF status = 201
           THEN /\ events' = CreateEventEvents(start, end, status)
                /\ reminders' = CreateEventReminders(start, ins, status)
                /\ rules' = CreateEventRules(rule, status)
                /\ links' = CreateEventLinks(cats, status)
                /\ nextEventId' = nextEventId + 1
                /\ nextReminderId' = nextReminderId + Len(ins)
           ELSE /\ events' = AfterError(events, CreateEventEvents(start, end, status))
                /\ reminders' = AfterError(reminders, CreateEventReminders(start, ins, status))
                /\ rules' = AfterError(rules, CreateEventRules(rule, status))
                /\ links' = AfterError(links, CreateEventLinks(cats, status))
                /\ UNCHANGED <<nextEventId, nextReminderId>>
        /\ UNCHANGED <<now, users, tokens, procs, run, creq, histVars, call, authVars, limiterVars>>

\* a request without category_ids and without recurrence_rule; start and end are
\* parsed and made aware before they are compared
CreateEvent(start, end, ins) == CreateEventFull(start, end, ins, {}, AbsentRule)

\* ------------------------------------------------------- create_reminder
\* create_reminder after its event lookup: ev is the event row it loaded
ReminderCheck(e, ev, in) ==
    LET mb == in.minutes_before
        rt == Parsed(in.reminder_time)
        start == Dt(ev.start_datetime, FALSE)
    IN  IF ~Given(in.reminder_time) /\ mb = None THEN [ok |-> FALSE, row |-> NoReminder]
        ELSE IF Given(in.reminder_time) /\ mb # None THEN [ok |-> FALSE, row |-> NoReminder]
        ELSE IF in.notification_type \notin ValidTypes THEN [ok |-> FALSE, row |-> NoReminder]
        ELSE IF mb # None
        THEN IF BadMinutes(mb) THEN [ok |-> FALSE, row |-> NoReminder]
             ELSE IF start.t - mb <= UtcNow.t THEN [ok |-> FALSE, row |-> NoReminder]
             ELSE [ok |-> TRUE,
                   row |-> Reminder(e, start.t - mb, in.notification_type, mb, TRUE)]
        ELSE IF TypeErr(rt, UtcNow) THEN [ok |-> FALSE, row |-> NoReminder]
             ELSE IF rt.t <= UtcNow.t THEN [ok |-> FALSE, row |-> NoReminder]
             \* the event's start is made aware, the parsed time is not
             ELSE IF TypeErr(rt, Dt(start.t, TRUE)) THEN [ok |-> FALSE, row |-> NoReminder]
             ELSE IF rt.t >= start.t THEN [ok |-> FALSE, row |-> NoReminder]
             ELSE [ok |-> TRUE,
                   row |-> Reminder(e, rt.t, in.notification_type, None, FALSE)]

\* a duplicate query that finds nothing
IsDuplicateNever(e, t) == FALSE

\* the duplicate query: a reminder of this event at this time
IsDuplicate(e, t) == \E r \in RemindersOf(e) : reminders[r].reminder_time = t

InsertReminder(e, ev, in) ==
    LET c == ReminderCheck(e, ev, in)
    IN  IF c.ok /\ ~IsDuplicate(e, c.row.reminder_time)
        THEN /\ reminders' = [reminders EXCEPT ![nextReminderId] = c.row]
             /\ nextReminderId' = nextReminderId + 1
             /\ UNCHANGED conflict
        ELSE /\ UNCHANGED <<reminders, nextReminderId>>
             /\ conflict' = IF c.ok THEN TRUE ELSE conflict

\* the whole handler, nothing interleaved
CreateReminder(e, in) ==
    /\ ~creq.active
    /\ nextReminderId <= MaxReminders
    /\ IF EventExists(e)
       THEN InsertReminder(e, events[e], in)
       ELSE UNCHANGED <<reminders, nextReminderId, conflict>>
    /\ UNCHANGED <<now, users, rules, links, events, tokens, nextEventId, procs, run, creq,
                   sends, orphanSkipped, prevFailed, lost, call, authVars, limiterVars>>

\* the handler in two steps, for requests served concurrently: the event lookup ...
CreateReminderLookup(e) ==
    /\ ~creq.active
    /\ nextReminderId <= MaxReminders
    /\ EventExists(e)
    /\ creq' = [active |-> TRUE, event_id |-> e, start_datetime |-> events[e].start_datetime]
    /\ UNCHANGED <<now, storeVars, procs, run, histVars, call, authVars, limiterVars>>

\* ... and the rest, on the event object it loaded (no foreign key check on insert)
CreateReminderInsert(in) ==
    /\ creq.active
    /\ InsertReminder(creq.event_id,
                      [NoEvent EXCEPT !.exists = TRUE, !.start_datetime = creq.start_datetime], in)
    /\ creq' = NoRequest
    /\ UNCHANGED <<now, users, rules, links, events, tokens, nextEventId, procs, run,
                   sends, orphanSkipped, prevFailed, lost, call, authVars, limiterVars>>

\* ------------------------------------------------- create_bulk_reminders
\* one item of the list: as in create_reminder, without the check of
\* notification_type
BulkReminderCheck(e, ev, in) ==
    LET mb == in.minutes_before
        rt == Parsed(in.reminder_time)
        start == Dt(ev.start_datetime, FALSE)
    IN  IF ~Given(in.reminder_time) /\ mb = None THEN [ok |-> FALSE, row |-> NoReminder]
        ELSE IF Given(in.reminder_time) /\ mb # None THEN [ok |-> FALSE, row |-> NoReminder]
        ELSE IF mb # None
        THEN IF BadMinutes(mb) THEN [ok |-> FALSE, row |-> NoReminder]
             ELSE IF start.t - mb <= UtcNow.t THEN [ok |-> FALSE, row |-> NoReminder]
             ELSE [ok |-> TRUE,
                   row |-> Reminder(e, start.t - mb, in.notification_type, mb, TRUE)]
        ELSE IF TypeErr(rt, UtcNow) THEN [ok |-> FALSE, row |-> NoReminder]
             ELSE IF rt.t <= UtcNow.t THEN [ok |-> FALSE, row |-> NoReminder]
             ELSE IF TypeErr(rt, Dt(start.t, TRUE)) THEN [ok |-> FALSE, row |-> NoReminder]
             ELSE IF rt.t >= start.t THEN [ok |-> FALSE, row |-> NoReminder]
             ELSE [ok |-> TRUE,
                   row |-> Reminder(e, rt.t, in.notification_type, None, FALSE)]

\* an item of the list that is no JSON object (null, a number, a string)
NullItem == [null |-> TRUE]

IsObject(item) == "event_id" \in DOMAIN item

\* the list of event ids is built with r.get(...) before the loop and outside its
\* try: an item that is no object raises there, and the handler's except rolls
\* back and answers 500
BulkAborts(items) == \E k \in 1..Len(items) : ~IsObject(items[k])

\* the outcome for item k of the list: an item of an event that is not the user's,
\* or that fails its checks, is reported and passed over
BulkItem(items, k) ==
    IF EventExists(items[k].event_id)
    THEN BulkReminderCheck(items[k].event_id, events[items[k].event_id], items[k].in)
    ELSE [ok |-> FALSE, row |-> NoReminder]

BulkAccepted(items) == {k \in 1..Len(items) : BulkItem(items, k).ok}

\* the id the accepted item k gets: ids are given in list order
BulkId(items, k) == nextReminderId + Cardinality({j \in BulkAccepted(items) : j < k})

\* the accepted items are added one by one and committed together
CreateBulkReminders(items) ==
    /\ Len(items) > 0
    /\ nextReminderId + Len(items) <= MaxReminders + 1
    /\ IF BulkAborts(items)
       THEN UNCHANGED <<reminders, nextReminderId>>
       ELSE /\ reminders' = [r \in ReminderIds |->
                               IF \E k \in BulkAccepted(items) : BulkId(items, k) = r
                               THEN BulkItem(items, CHOOSE k \in BulkAccepted(items) :
                                                        BulkId(items, k) = r).row
                               ELSE reminders[r]]
            /\ nextReminderId' = nextReminderId + Cardinality(BulkAccepted(items))
    /\ UNCHANGED <<now, users, rules, links, events, tokens, nextEventId, procs, run, creq, histVars, call, authVars, limiterVars>>

\* ------------------------------------------------------- update_reminder
\* in.set_type says whether the JSON has the key notification_type
UpdateInputs ==
    [set_type : BOOLEAN, notification_type : NotificationTypes,
     minutes_before : MinutesInputs, reminder_time : {NoIso} \cup IsoInputs]

\* the row update_reminder commits, or the row as it is when the request is refused
UpdatedReminder(row, ev, in) ==
    LET mb == in.minutes_before
        rt == Parsed(in.reminder_time)
        typed == IF in.set_type THEN [row EXCEPT !.notification_type = in.notification_type]
                 ELSE row
    IN  IF in.set_type /\ in.notification_type \notin ValidTypes THEN row
        ELSE IF Given(in.reminder_time) /\ mb # None THEN row
        ELSE IF mb # None
        THEN IF BadMinutes(mb) THEN row
             ELSE IF ev.start_datetime - mb <= UtcNow.t THEN row
             ELSE [typed EXCEPT !.reminder_time = ev.start_datetime - mb,
                                !.minutes_before = mb, !.is_relative = TRUE]
        ELSE IF Given(in.reminder_time)
        THEN IF TypeErr(rt, UtcNow) THEN row
             ELSE IF rt.t <= UtcNow.t THEN row
             ELSE IF TypeErr(rt, Dt(ev.start_datetime, TRUE)) THEN row
             ELSE IF rt.t >= ev.start_datetime THEN row
             ELSE [typed EXCEPT !.reminder_time = rt.t,
                                !.minutes_before = None, !.is_relative = FALSE]
        ELSE typed

UpdateReminder(r, in) ==
    /\ r \in ReminderIds
    /\ IF Stored(r) /\ EventExists(reminders[r].event_id)
       THEN reminders' = [reminders EXCEPT
                            ![r] = UpdatedReminder(@, events[reminders[r].event_id], in)]
       ELSE UNCHANGED reminders
    /\ UNCHANGED <<now, users, rules, links, events, tokens, nextEventId, nextReminderId, procs, run, creq,
                   histVars, call, authVars, limiterVars>>

\* ------------------------------------- the recompute of relative reminders
\* a recompute that makes the moved reminder pending again
RecomputedRowResets(row, newStart) ==
    IF newStart.t - row.minutes_before > NowUtcAware.t
    THEN [row EXCEPT !.reminder_time = newStart.t - row.minutes_before,
                     !.notification_sent = FALSE]
    ELSE row

\* a relative reminder of an event whose start becomes newStart
RecomputedRow(row, newStart) ==
    IF newStart.t - row.minutes_before > NowUtcAware.t
    THEN [row EXCEPT !.reminder_time = newStart.t - row.minutes_before]
    ELSE row

\* the relative reminders the recompute loop compares with now
Recomputable(e) ==
    {r \in RemindersOf(e) : reminders[r].is_relative /\ reminders[r].minutes_before # None}

\* the comparison with datetime.now(timezone.utc) raises for a naive start
RecomputeRaises(e, newStart) == Recomputable(e) # {} /\ TypeErr(newStart, NowUtcAware)

\* a recompute that also shifts the event's other reminders by the event's shift
RecomputedShiftsAll(e, newStart) ==
    [r \in ReminderIds |->
        IF r \in Recomputable(e) THEN RecomputedRow(reminders[r], newStart)
        ELSE IF r \in RemindersOf(e)
             THEN [reminders[r] EXCEPT
                     !.reminder_time = @ + (newStart.t - events[e].start_datetime)]
             ELSE reminders[r]]

Recomputed(e, newStart) ==
    [r \in ReminderIds |->
        IF r \in Recomputable(e) THEN RecomputedRow(reminders[r], newStart) ELSE reminders[r]]

\* ---------------------------------------------------------- update_event
\* in.set_start / in.set_end say whether the JSON has the key; an end of NoIso is null
EventUpdateInputs ==
    [set_start : BOOLEAN, start_datetime : IsoInputs,
     set_end : BOOLEAN, end_datetime : {NoIso} \cup IsoInputs]

\* category_ids of the request: the key absent, or a list of ids
KeepCategories == [set |-> FALSE, ids |-> {}]
SetCategories(ids) == [set |-> TRUE, ids |-> ids]

\* where the handler stops: the comparison of end and start (TypeError or 400),
\* the categories query, the rule validation, the recompute of the reminders
\* (TypeError), the commit; "done" when it commits
UpdateEventStage(e, in, cats, rule) ==
    LET start == IF in.set_start THEN Parsed(in.start_datetime)
                 ELSE Dt(events[e].start_datetime, FALSE)
        end == IF in.set_end THEN Parsed(in.end_datetime)
               ELSE Dt(events[e].end_datetime, FALSE)
    IN  IF end.t # None /\ TypeErr(end, start) THEN "end500"
        ELSE IF end.t # None /\ end.t <= start.t THEN "end400"
        ELSE IF cats.set /\ ~(cats.ids \subseteq Categories) THEN "categories"
        ELSE IF rule.kind = "data" /\ validate_recurrence_rule(rule.data) # <<>> THEN "rule"
        ELSE IF in.set_start /\ RecomputeRaises(e, start) THEN "recompute"
        ELSE IF CommitRaises(rule) THEN "commit"
        ELSE "done"

UpdateEventStatus(e, in, cats, rule) ==
    LET stage == UpdateEventStage(e, in, cats, rule)
    IN  IF stage = "done" THEN 200
        ELSE IF stage \in {"end400", "categories", "rule"} THEN 400
        ELSE 500

\* what the session holds when the handler returns: event.categories is assigned
\* before the rule is validated, the rule before the event's fields, the
\* reminders last
UpdateEventLinks(e, cats, stage) ==
    IF stage \in {"rule", "recompute", "commit", "done"} /\ cats.set
    THEN [links EXCEPT ![e] = cats.ids]
    ELSE links

UpdateEventRules(e, rule, stage) ==
    IF stage \in {"recompute", "commit", "done"} /\ rule.kind # "absent"
    THEN [rules EXCEPT ![e] =
            IF rule.kind = "data" THEN [exists |-> TRUE, data |-> rule.data] ELSE NoRule]
    ELSE rules

UpdateEventEvents(e, in, stage) ==
    IF stage \in {"recompute", "commit", "done"}
    THEN [events EXCEPT
            ![e].start_datetime = IF in.set_start THEN in.start_datetime.t ELSE @,
            ![e].end_datetime = IF in.set_end THEN in.end_datetime.t ELSE @]
    ELSE events

UpdateEventReminders(e, in, stage) ==
    IF stage \in {"commit", "done"} /\ in.set_start
    THEN Recomputed(e, Parsed(in.start_datetime))
    ELSE reminders

\* the whole handler
UpdateEventFull(e, in, cats, rule) ==
    /\ e \in EventIds
    /\ IF EventExists(e)
       THEN LET stage == UpdateEventStage(e, in, cats, rule)
            IN  IF stage = "done"
                THEN /\ events' = UpdateEventEvents(e, in, stage)
                     /\ reminders' = UpdateEventReminders(e, in, stage)
                     /\ rules' = UpdateEventRules(e, rule, stage)
                     /\ links' = UpdateEventLinks(e, cats, stage)
                ELSE /\ events' = AfterError(events, UpdateEventEvents(e, in, stage))
                     /\ reminders' = AfterError(reminders, UpdateEventReminders(e, in, stage))
                     /\ rules' = AfterError(rules, UpdateEventRules(e, rule, stage))
                     /\ links' = AfterError(links, UpdateEventLinks(e, cats, stage))
       ELSE UNCHANGED <<events, reminders, rules, links>>
    /\ UNCHANGED <<now, users, tokens, nextEventId, nextReminderId, procs, run, creq,
                   histVars, call, authVars, limiterVars>>

UpdateEventApplies(e, in) == UpdateEventStatus(e, in, KeepCategories, AbsentRule) = 200

\* a request without category_ids and without recurrence_rule
UpdateEvent(e, in) == UpdateEventFull(e, in, KeepCategories, AbsentRule)

\* ------------------------------------------------------------ move_event
MoveInputs ==
    [start_datetime : IsoInputs, set_end : BOOLEAN, end_datetime : {NoIso} \cup IsoInputs]

\* where the handler stops: the comparison of end and start (TypeError or 400),
\* the recompute of the reminders (TypeError); "done" when it commits
MoveEventStage(e, in) ==
    LET start == Parsed(in.start_datetime)
        end == Parsed(in.end_datetime)
    IN  IF in.set_end /\ Given(in.end_datetime) /\ TypeErr(end, start) THEN "end500"
        ELSE IF in.set_end /\ Given(in.end_datetime) /\ end.t <= start.t THEN "end400"
        ELSE IF RecomputeRaises(e, start) THEN "recompute"
        ELSE "done"

MoveEventStatus(e, in) ==
    LET stage == MoveEventStage(e, in)
    IN  IF stage = "done" THEN 200 ELSE IF stage = "end400" THEN 400 ELSE 500

MoveEventApplies(e, in) == MoveEventStatus(e, in) = 200

\* without end_datetime in the request an existing end keeps the duration
MovedEnd(e, in) ==
    IF in.set_end THEN in.end_datetime.t
    ELSE IF events[e].end_datetime # None
         THEN in.start_datetime.t + (events[e].end_datetime - events[e].start_datetime)
         ELSE None

\* what the session holds when the handler returns: event.start_datetime is
\* assigned before the end is looked at
MoveEventEvents(e, in, stage) ==
    IF stage \in {"end500", "end400"}
    THEN [events EXCEPT ![e].start_datetime = in.start_datetime.t]
    ELSE [events EXCEPT ![e].start_datetime = in.start_datetime.t,
                        ![e].end_datetime = MovedEnd(e, in)]

MoveEventReminders(e, in, stage) ==
    IF stage = "done" THEN Recomputed(e, Parsed(in.start_datetime)) ELSE reminders

MoveEvent(e, in) ==
    /\ e \in EventIds
    /\ IF EventExists(e)
       THEN LET stage == MoveEventStage(e, in)
            IN  IF stage = "done"
                THEN /\ events' = MoveEventEvents(e, in, stage)
                     /\ reminders' = MoveEventReminders(e, in, stage)
                ELSE /\ events' = AfterError(events, MoveEventEvents(e, in, stage))
                     /\ reminders' = AfterError(reminders, MoveEventReminders(e, in, stage))
       ELSE UNCHANGED <<events, reminders>>
    /\ UNCHANGED <<now, users, rules, links, tokens, nextEventId, nextReminderId, procs, run,
                   creq, histVars, call, authVars, limiterVars>>

\* ------------------------------------------------------ bulk_move_events
Offsets == {0 - 1, 1}

\* new_start is the stored (naive) start plus the offset: an event with a relative
\* reminder raises at the comparison with the aware now, after its times were set;
\* the error is collected and the final commit writes the times
BulkMovedReminders(ids, offset) ==
    [r \in ReminderIds |->
        IF /\ Stored(r)
           /\ reminders[r].event_id \in ids
           /\ r \in Recomputable(reminders[r].event_id)
           /\ ~RecomputeRaises(reminders[r].event_id,
                               Dt(events[reminders[r].event_id].start_datetime + offset, FALSE))
        THEN RecomputedRow(reminders[r],
                           Dt(events[reminders[r].event_id].start_datetime + offset, FALSE))
        ELSE reminders[r]]

\* the events of the request whose iteration raises: reported in "errors"
BulkMoveErrors(ids, offset) ==
    {e \in ids : EventExists(e)
                 /\ RecomputeRaises(e, Dt(events[e].start_datetime + offset, FALSE))}

\* the events appended to updated_events: reported in "events"
BulkMoveUpdated(ids, offset) == {e \in ids : EventExists(e)} \ BulkMoveErrors(ids, offset)

BulkMoveEvents(ids, offset) ==
    /\ ids # {}
    /\ \A e \in ids : EventExists(e) =>
           /\ events[e].start_datetime + offset \in Times
           /\ events[e].end_datetime # None => events[e].end_datetime + offset \in Times
    /\ events' = [e \in EventIds |->
                    IF e \in ids /\ EventExists(e)
                    THEN [events[e] EXCEPT
                            !.start_datetime = @ + offset,
                            !.end_datetime = IF @ # None THEN @ + offset ELSE @]
                    ELSE events[e]]
    /\ reminders' = BulkMovedReminders(ids, offset)
    /\ UNCHANGED <<now, users, rules, links, tokens, nextEventId, nextReminderId, procs, run, creq, histVars, call, authVars, limiterVars>>

\* -------------------------------------------------------- bulk_copy_events
\* the time of the copy of reminder r: computed from the stored (naive) values
CopiedTime(r, offset) ==
    IF reminders[r].is_relative /\ reminders[r].minutes_before # None
    THEN Dt(events[reminders[r].event_id].start_datetime + offset
                - reminders[r].minutes_before, FALSE)
    ELSE Dt(reminders[r].reminder_time + offset, FALSE)

\* the comparison of the copy's time with the aware now raises; the except of the
\* event's iteration collects the error, the copy of the event stays in the session
CopyRaises(r, offset) == TypeErr(CopiedTime(r, offset), NowUtcAware)

\* the reminders whose copy is added: those reached before the event's loop
\* raised, with a copied time in the future
CopiedReminders(ids, offset, copy_reminders) ==
    {r \in ReminderIds :
        /\ copy_reminders
        /\ Stored(r)
        /\ reminders[r].event_id \in ids
        /\ EventExists(reminders[r].event_id)
        /\ \A q \in RemindersOf(reminders[r].event_id) : q <= r => ~CopyRaises(q, offset)
        /\ CopiedTime(r, offset).t > NowUtcAware.t}

\* the events found by the query, and the id of the copy of each
CopyFound(ids) == {e \in ids : EventExists(e)}

CopyEventId(ids, e) == nextEventId + Cardinality({f \in CopyFound(ids) : f < e})

CopyReminderId(C, r) ==
    nextReminderId
        + Cardinality({q \in C : \/ reminders[q].event_id < reminders[r].event_id
                                  \/ /\ reminders[q].event_id = reminders[r].event_id
                                     /\ q < r})

BulkCopyEvents(ids, offset, copy_reminders) ==
    LET F == CopyFound(ids)
        C == CopiedReminders(ids, offset, copy_reminders)
    IN  /\ F # {}
        /\ nextEventId + Cardinality(F) <= MaxEvents + 1
        /\ nextReminderId + Cardinality(C) <= MaxReminders + 1
        /\ \A e \in F :
              /\ events[e].start_datetime + offset \in Times
              /\ events[e].end_datetime # None => events[e].end_datetime + offset \in Times
        /\ events' = [n \in EventIds |->
                        IF \E e \in F : CopyEventId(ids, e) = n
                        THEN LET e == CHOOSE e \in F : CopyEventId(ids, e) = n
                             IN  [events[e] EXCEPT
                                    !.start_datetime = @ + offset,
                                    !.end_datetime = IF @ # None THEN @ + offset ELSE @]
                        ELSE events[n]]
        /\ nextEventId' = nextEventId + Cardinality(F)
        /\ reminders' = [n \in ReminderIds |->
                           IF \E r \in C : CopyReminderId(C, r) = n
                           THEN LET r == CHOOSE r \in C : CopyReminderId(C, r) = n
                                IN  [reminders[r] EXCEPT
                                       !.event_id = CopyEventId(ids, reminders[r].event_id),
                                       !.reminder_time = CopiedTime(r, offset).t,
                                       !.notification_sent = FALSE]
                           ELSE reminders[n]]
        /\ nextReminderId' = nextReminderId + Cardinality(C)
        \* the copy gets the categories of the event and no recurrence rule
        /\ links' = [n \in EventIds |->
                       IF \E e \in F : CopyEventId(ids, e) = n
                       THEN links[CHOOSE e \in F : CopyEventId(ids, e) = n]
                       ELSE links[n]]
        /\ UNCHANGED <<now, users, rules, tokens, procs, run, creq, histVars, call, authVars, limiterVars>>

\* ---------------------------------------------------------- delete_event
\* the ORM cascade ('all, delete-orphan') deletes the event's reminders with it
\* a delete that leaves the reminders of the events in the table
CascadedNever(ids) == reminders

\* db.session.delete(event) for the events ids: their reminders go with them
Cascaded(ids) ==
    [r \in ReminderIds |->
        IF \E e \in ids : r \in RemindersOf(e) THEN NoReminder ELSE reminders[r]]

DeleteEvent(e) ==
    /\ EventExists(e)
    /\ events' = [events EXCEPT ![e] = NoEvent]
    /\ reminders' = Cascaded({e})
    /\ rules' = [rules EXCEPT ![e] = NoRule]
    /\ links' = [links EXCEPT ![e] = {}]
    /\ UNCHANGED <<now, users, tokens, nextEventId, nextReminderId, procs, run, creq, histVars, call, authVars, limiterVars>>

\* ---------------------------------------------------- bulk_delete_events
\* the events of the list that the query finds; 404 when it finds none
BulkDeleteEvents(ids) ==
    LET found == {e \in ids : EventExists(e)}
    IN  /\ ids # {}
        /\ IF found = {}
           THEN UNCHANGED <<events, reminders, rules, links>>
           ELSE /\ events' = [e \in EventIds |-> IF e \in found THEN NoEvent ELSE events[e]]
                /\ reminders' = Cascaded(found)
                /\ rules' = [e \in EventIds |-> IF e \in found THEN NoRule ELSE rules[e]]
                /\ links' = [e \in EventIds |-> IF e \in found THEN {} ELSE links[e]]
        /\ UNCHANGED <<now, users, tokens, nextEventId, nextReminderId, procs, run, creq,
                       histVars, call, authVars, limiterVars>>

\* ------------------------------------------------------- specifications
\* the store and the scheduler after construction
InitProgram ==
    /\ now = 0
    /\ users = Users
    /\ events = [e \in EventIds |-> NoEvent]
    /\ reminders = [r \in ReminderIds |-> NoReminder]
    /\ rules = [e \in EventIds |-> NoRule]
    /\ links = [e \in EventIds |-> {}]
    /\ tokens = {}
    /\ nextEventId = 1
    /\ nextReminderId = 1
    /\ procs = {1}
    /\ run = [i \in Slots |-> IdleRun]
    /\ creq = NoRequest
    /\ sends = [r \in ReminderIds |-> 0]
    /\ orphanSkipped = {}
    /\ prevFailed = {}
    /\ lost = {}
    /\ conflict = FALSE
    /\ password_hash = [u \in Users |-> Hash(Password(8, {"upper", "lower", "digit"}))]
    /\ nextTokenId = 1
    /\ preq = NoResetRequest
    /\ accepted = [t \in TokenIds |-> 0]
    /\ cleanupError = NoCleanupError
    /\ clock = 0
    /\ requests = [k \in Keys |-> <<>>]
    /\ threads = [t \in ThreadIds |-> IdleThread]
    /\ admitted = [k \in Keys |-> <<>>]

Init == InitProgram /\ call = NoCall

\* the inputs the specifications draw from
Relative(mb, type) == [minutes_before |-> mb, reminder_time |-> NoIso, notification_type |-> type]
Absolute(d, type) == [minutes_before |-> None, reminder_time |-> d, notification_type |-> type]

RelativeInputs == {Relative(mb, type) : mb \in {Negative} \cup (0..MaxMinutes), type \in NotificationTypes}
AbsoluteInputs == {Absolute(d, "email") : d \in IsoInputs}
MalformedInputs == {Relative(None, "email"), [Absolute(Iso(MaxTime, TRUE), "email") EXCEPT !.minutes_before = 0]}

NewReminderLists == {<<>>} \cup {<<in>> : in \in RelativeInputs \cup AbsoluteInputs \cup MalformedInputs}

ReminderUpdates ==
    {[set_type |-> FALSE, notification_type |-> "email", minutes_before |-> mb, reminder_time |-> NoIso] :
        mb \in 0..MaxMinutes}
    \cup {[set_type |-> FALSE, notification_type |-> "email", minutes_before |-> None, reminder_time |-> d] :
        d \in {Iso(MaxTime, z) : z \in BOOLEAN}}
    \cup {[set_type |-> TRUE, notification_type |-> type, minutes_before |-> None, reminder_time |-> NoIso] :
        type \in {"sms", "other"}}

StartUpdates ==
    {[set_start |-> TRUE, start_datetime |-> d, set_end |-> FALSE, end_datetime |-> NoIso] : d \in IsoInputs}

StartMoves == {[start_datetime |-> d, set_end |-> FALSE, end_datetime |-> NoIso] : d \in IsoInputs}

Ticks ==
    \/ \E s \in procs : TickStart(s)
    \/ \E i \in Slots : TickSkip(i)
    \/ \E i \in Slots : TickDispatchOk(i)
    \/ \E i \in Slots : TickDispatchFail(i)
    \/ \E i \in Slots : TickDispatchStub(i)
    \/ \E i \in Slots : TickCommit(i)
    \/ \E i \in Slots : TickFinish(i)

Cleanup ==
    \/ \E s \in procs : CleanupStart(s)
    \/ \E i \in Slots : CleanupCommit(i)

Create ==
    \/ \E start \in Times, ins \in NewReminderLists : CreateEvent(Iso(start, TRUE), NoIso, ins)
    \/ \E e \in EventIds, in \in RelativeInputs \cup AbsoluteInputs \cup MalformedInputs :
          CreateReminder(e, in)

Change ==
    \/ \E r \in ReminderIds, in \in ReminderUpdates : UpdateReminder(r, in)
    \/ \E e \in EventIds, in \in StartUpdates : UpdateEvent(e, in)
    \/ \E e \in EventIds, in \in StartMoves : MoveEvent(e, in)
    \/ \E ids \in SUBSET EventIds, offset \in Offsets : BulkMoveEvents(ids, offset)
    \/ \E e \in EventIds : DeleteEvent(e)

\* the ticks whose sender never returns False
TicksOk ==
    \/ \E s \in procs : TickStart(s)
    \/ \E i \in Slots : TickSkip(i)
    \/ \E i \in Slots : TickDispatchOk(i)
    \/ \E i \in Slots : TickDispatchStub(i)
    \/ \E i \in Slots : TickCommit(i)
    \/ \E i \in Slots : TickFinish(i)

Faults ==
    \/ \E i \in Slots : TickRaise(i)
    \/ \E i \in Slots : TickCommitFail(i)
    \/ \E s \in procs : Crash(s)

\* requests with one well-formed relative reminder
SmallInputs == {Relative(mb, type) : mb \in 0..MaxMinutes, type \in {"email", "push"}}

CreateSmall ==
    \/ \E start \in Times, in \in SmallInputs : CreateEvent(Iso(start, TRUE), NoIso, <<in>>)
    \/ \E e \in EventIds, in \in SmallInputs : CreateReminder(e, in)

\* create_reminder served concurrently with delete_event
Race ==
    \/ \E start \in Times : CreateEvent(Iso(start, TRUE), NoIso, <<>>)
    \/ \E e \in EventIds : CreateReminderLookup(e)
    \/ \E in \in SmallInputs : CreateReminderInsert(in)
    \/ \E e \in EventIds : DeleteEvent(e)

\* the scheduler with every send answered, and the creating handlers
Next == Advance \/ Ticks \/ Create

Spec == Init /\ [][Next]_vars

\* ... with the handlers that change events and reminders
NextApi == Advance \/ TicksOk \/ CreateSmall \/ Change

SpecApi == Init /\ [][NextApi]_vars

\* ... with exceptions inside the loop body and process crashes
NextFault == Advance \/ Ticks \/ Faults \/ CreateSmall

SpecFault == Init /\ [][NextFault]_vars

\* ... with create_reminder racing delete_event
NextRace == Advance \/ TicksOk \/ Race

SpecRace == Init /\ [][NextRace]_vars

\* every kind of reminder request: relative, absolute, malformed
CreateInputs == RelativeInputs \cup AbsoluteInputs \cup MalformedInputs

\* the lists of create_bulk_reminders, up to the free ids
BulkLists ==
    UNION {[1..n -> [event_id : EventIds, in : CreateInputs] \cup {NullItem}] :
              n \in 1..MaxReminders}

CreateBulk == \E items \in BulkLists : CreateBulkReminders(items)

CopyOffsets == {0 - 1, 0, 1}

Copy ==
    \E ids \in SUBSET EventIds, offset \in CopyOffsets, copy_reminders \in BOOLEAN :
        BulkCopyEvents(ids, offset, copy_reminders)

\* the handlers that store reminders
NextCreate == Advance \/ Create \/ CreateBulk \/ Copy

SpecCreate == Init /\ [][NextCreate]_vars

\* requests of the single-event handlers, good and bad: a daily rule, a rule with
\* an unknown frequency, a rule whose end_date does not parse; the user's
\* category and one that is not theirs; ends before, at and after the start
DailyRule == [NoRuleData EXCEPT !.frequency = Str("DAILY")]

TxnRules ==
    {AbsentRule, NullRule, RuleOf(DailyRule),
     RuleOf([DailyRule EXCEPT !.frequency = Str("HOURLY")]),
     RuleOf([DailyRule EXCEPT !.end_date = UnparsedDate])}

TxnCategories == {KeepCategories, SetCategories({1}), SetCategories({2})}

TxnReminders == {<<>>, <<Relative(0, "email")>>, <<Relative(Negative, "email")>>}

TxnIso == {Iso(1, TRUE), Iso(2, TRUE), Iso(2, FALSE)}

TxnCreates ==
    [start : {Iso(1, TRUE), Iso(2, TRUE)}, end : {NoIso, Iso(1, TRUE), Iso(2, TRUE)},
     ins : TxnReminders, ids : {{}, {1}, {2}}, rule : TxnRules \ {NullRule}]

TxnUpdates ==
    {[set_start |-> FALSE, start_datetime |-> Iso(1, TRUE), set_end |-> FALSE,
      end_datetime |-> NoIso]}
    \cup {[set_start |-> TRUE, start_datetime |-> d, set_end |-> FALSE,
           end_datetime |-> NoIso] : d \in {Iso(2, TRUE), Iso(2, FALSE)}}
    \cup {[set_start |-> FALSE, start_datetime |-> Iso(1, TRUE), set_end |-> TRUE,
           end_datetime |-> d] : d \in {NoIso, Iso(1, TRUE), Iso(2, TRUE)}}

TxnMoves ==
    {[start_datetime |-> d, set_end |-> FALSE, end_datetime |-> NoIso] : d \in TxnIso}
    \cup {[start_datetime |-> d, set_end |-> TRUE, end_datetime |-> x] :
             d \in TxnIso, x \in {NoIso} \cup TxnIso}

Txn ==
    \/ \E c \in TxnCreates : CreateEventFull(c.start, c.end, c.ins, c.ids, c.rule)
    \/ \E e \in EventIds, in \in TxnUpdates, cats \in TxnCategories, rule \in TxnRules :
          UpdateEventFull(e, in, cats, rule)
    \/ \E e \in EventIds, in \in TxnMoves : MoveEvent(e, in)
    \/ \E e \in EventIds : DeleteEvent(e)

\* the handlers of one event, with every kind of bad request
NextTxn == Txn

SpecTxn == Init /\ [][NextTxn]_vars

\* recurring events with one reminder, reminders added later, and the deletes
Deletes ==
    \/ \E start \in Times, in \in SmallInputs :
          CreateEventFull(Iso(start, TRUE), NoIso, <<in>>, {1}, RuleOf(DailyRule))
    \/ \E e \in EventIds, in \in SmallInputs : CreateReminder(e, in)
    \/ \E e \in EventIds : DeleteEvent(e)
    \/ \E ids \in SUBSET EventIds : BulkDeleteEvents(ids)

\* the scheduler, and events created and deleted between and inside its ticks
NextDelete == Advance \/ TicksOk \/ Deletes

SpecDelete == Init /\ [][NextDelete]_vars

\* the scheduler beside the handlers that move an event or edit a reminder
NextOnce ==
    \/ Advance
    \/ TicksOk
    \/ CreateSmall
    \/ \E r \in ReminderIds, in \in ReminderUpdates : UpdateReminder(r, in)
    \/ \E e \in EventIds, in \in StartMoves : MoveEvent(e, in)

SpecOnce == Init /\ [][NextOnce]_vars

\* events with and without a relative reminder, moved in lists
NextBulkMove ==
    \/ Advance
    \/ CreateSmall
    \/ \E start \in Times : CreateEvent(Iso(start, TRUE), NoIso, <<>>)
    \/ \E ids \in SUBSET EventIds, offset \in Offsets : BulkMoveEvents(ids, offset)

SpecBulkMove == Init /\ [][NextBulkMove]_vars

\* the handlers that issue and redeem tokens
TokenRequests ==
    \/ \E u \in Users \cup {UnknownUser} : RequestPasswordReset(u)
    \/ \E tok \in TokenIds, p \in NewPasswords : ResetPassword(tok, p)
    \/ \E u \in Users : ResendVerification(u)

\* the hourly cleanup beside the token handlers and the creation of events
NextTokens ==
    \/ \E d \in {1, MinutesPerHour} : Elapse(d)
    \/ Cleanup
    \/ TokenRequests
    \/ CreateEvent(Iso(MaxTime, TRUE), NoIso, <<Relative(0, "email")>>)

SpecTokens == Init /\ [][NextTokens]_vars

\* ... with ticks of the cleanup that raise
NextTokenFault == NextTokens \/ (\E i \in Slots : CleanupRaise(i))

SpecTokenFault == Init /\ [][NextTokenFault]_vars

\* password resets requested one after another and side by side, and redeemed
NextReset ==
    \/ \E d \in {1, MinutesPerHour} : Elapse(d)
    \/ Cleanup
    \/ \E u \in Users \cup {UnknownUser} : RequestPasswordReset(u)
    \/ \E u \in Users : RequestResetLookup(u)
    \/ RequestResetCommit
    \/ \E tok \in TokenIds, p \in NewPasswords : ResetPassword(tok, p)

SpecReset == Init /\ [][NextReset]_vars

\* threads of one process inside the rate limiter
NextLimiter ==
    \/ Second
    \/ \E t \in ThreadIds, key \in Keys : Enter(t, key)
    \/ \E t \in ThreadIds : Filter(t) \/ Store(t) \/ Check(t) \/ AppendRequest(t)

SpecLimiter == Init /\ [][NextLimiter]_vars

\* rule_data of a request: every field absent, well formed, or out of its range
RuleInputs ==
    [frequency : {Null, Str("DAILY"), Str("WEEKLY"), Str("MONTHLY"), Str("HOURLY")},
     interval : {Null, Num(0), Num(1)},
     days_of_week : {<<>>, <<"MON">>, <<"XYZ">>},
     day_of_month : {Null, Num(0), Num(1), Num(32)},
     week_of_month : {Null, Num(0), Num(5), Num(6)},
     day_of_week : {Null, Str("MON"), Str("XYZ")},
     end_date : {Null, Str("2024-01-01T00:00:00Z")},
     occurrence_count : {Null, Num(Negative), Num(0), Num(1)}]

\* a call of validate_recurrence_rule that has not returned
InitValidate ==
    /\ InitProgram
    /\ call \in [op : {"validate"}, data : RuleInputs, done : {FALSE}, errors : {<<>>}]

\* the call returns its list of messages
Validate ==
    /\ call.op = "validate" /\ ~call.done
    /\ call' = [call EXCEPT !.done = TRUE, !.errors = validate_recurrence_rule(call.data)]
    /\ UNCHANGED <<now, storeVars, procs, run, creq, histVars, authVars, limiterVars>>

NextValidate == Validate

SpecValidate == InitValidate /\ [][NextValidate]_vars

\* events of a call: starting Monday 2024-01-01, Wednesday 2024-01-03 or
\* Wednesday 2024-01-31, without end or ending a day later
GenEvents ==
    {[start_datetime |-> d, end_datetime |-> e] : d \in {0, 2, 30}, e \in {None}}
    \cup {[start_datetime |-> d, end_datetime |-> d + 1] : d \in {0, 2, 30}}

\* rows of recurrence_rules that passed validate_recurrence_rule
StoredRule(f, i) == [NoRuleData EXCEPT !.frequency = Str(f), !.interval = Num(i)]

\* days_of_week of a WEEKLY rule: none, a day twice, the same days in two orders
GenWeekdays ==
    {<<>>, <<"FRI", "MON", "FRI">>, <<"MON", "WED", "FRI">>, <<"FRI", "WED", "MON">>}

\* frequencies that are no key of FREQUENCY_MAP
OtherFrequencies == {"HOURLY", "daily"}

GenPatterns ==
    {StoredRule(f, i) : f \in {"DAILY", "YEARLY"} \cup OtherFrequencies, i \in {1, 2}}
    \cup {[StoredRule("WEEKLY", i) EXCEPT !.days_of_week = w] :
             i \in {1, 2}, w \in GenWeekdays}
    \cup {[StoredRule("MONTHLY", i) EXCEPT !.day_of_month = m] :
             i \in {1, 2}, m \in {Null, Num(10), Num(31)}}
    \cup {[StoredRule("MONTHLY", i) EXCEPT !.week_of_month = Num(w), !.day_of_week = Str(d)] :
             i \in {1, 2}, w \in {1, 5}, d \in {"MON", "FRI"}}

\* no end condition, an end_date (2024-01-02, 2024-02-15) or an occurrence_count
GenRules ==
    GenPatterns
    \cup {[r EXCEPT !.end_date = Date(d)] : r \in GenPatterns, d \in {1, 45}}
    \cup {[r EXCEPT !.occurrence_count = Num(n)] : r \in GenPatterns, n \in {1, 3, 5}}

\* windows: from the event's start or from a given day, to 2024-01-07,
\* 2024-01-21 or 2024-04-30
GenCalls ==
    [op : {"generate"}, event : GenEvents, has_rule : {TRUE}, rule : GenRules,
     start_date : {NoDate, Date(0), Date(10), Date(40)},
     end_date : {Date(6), Date(20), Date(120)},
     max_occurrences : {1, 2, 1000}]

NoResult == [fallback |-> FALSE, list |-> <<>>]

InitGenerate ==
    /\ InitProgram
    /\ \E c \in GenCalls :
          call = [op |-> "generate", args |-> c, calls |-> 0, result |-> NoResult,
                  again |-> NoResult]

\* the call returns
Generate ==
    /\ call.op = "generate" /\ call.calls = 0
    /\ WindowEnd(call.args) <= Horizon
    /\ call' = [call EXCEPT !.calls = 1, !.result = generate_occurrences(call.args)]
    /\ UNCHANGED <<now, storeVars, procs, run, creq, histVars, authVars, limiterVars>>

\* a second call with the same arguments returns
GenerateAgain ==
    /\ call.op = "generate" /\ call.calls = 1
    /\ call' = [call EXCEPT !.calls = 2, !.again = generate_occurrences(call.args)]
    /\ UNCHANGED <<now, storeVars, procs, run, creq, histVars, authVars, limiterVars>>

NextGenerate == Generate \/ GenerateAgain

SpecGenerate == InitGenerate /\ [][NextGenerate]_vars

\* requests with one reminder, relative or absolute with an offset
EditInputs ==
    {Relative(mb, "email") : mb \in 0..MaxMinutes}
    \cup {Absolute(Iso(t, TRUE), "email") : t \in Times}

CreateEdit ==
    \/ \E start \in Times, in \in EditInputs : CreateEvent(Iso(start, TRUE), NoIso, <<in>>)
    \/ \E e \in EventIds, in \in EditInputs : CreateReminder(e, in)

\* ... with relative and absolute reminders under the changing handlers
NextEdit == Advance \/ TicksOk \/ CreateEdit \/ Change

SpecEdit == Init /\ [][NextEdit]_vars

\* ... with further processes, each with its own scheduler
NextDual == Advance \/ TicksOk \/ CreateSmall \/ (\E s \in ProcIds : StartScheduler(s))

SpecDual == Init /\ [][NextDual]_vars

\* both periodic jobs
NextJobs == Advance \/ Ticks \/ Cleanup \/ CreateSmall

SpecJobs == Init /\ [][NextJobs]_vars

\* the interval trigger keeps submitting check_reminders and a submitted run goes
\* on to its end; the sender does not fail for a reminder every time it is tried
TickFairness ==
    /\ WF_vars(\E s \in procs : TickStart(s))
    /\ WF_vars(\E i \in Slots : TickSkip(i))
    /\ WF_vars(\E i \in Slots : TickDispatchStub(i))
    /\ WF_vars(\E i \in Slots : TickCommit(i))
    /\ WF_vars(\E i \in Slots : TickFinish(i))
    /\ \A r \in ReminderIds :
          SF_vars(\E i \in Slots : AtReminder(i) /\ Current(i) = r /\ TickDispatchOk(i))

SpecLive == Init /\ [][NextJobs]_vars /\ TickFairness

\* ------------------------------------------------------------ properties
\* the reminder's event and the event's user are stored
HasRecipient(r) ==
    /\ EventExists(reminders[r].event_id)
    /\ events[reminders[r].event_id].user_id \in users

\* C1: a reminder's notification_sent is true only after a sender was called for
\* it and returned success, whatever its notification_type.
C1_SentOnlyAfterDispatch ==
    \A r \in ReminderIds :
        Stored(r) /\ reminders[r].notification_sent => sends[r] >= 1

\* C2: when a run of check_reminders ends, every stored reminder that was due at
\* the run's "now", has its event and user, and whose dispatch did not fail in
\* this run, has notification_sent = true.
C2_DueBecomesSent ==
    \A i \in Slots : Finished(i) =>
        \A r \in ReminderIds :
            (/\ Stored(r)
             /\ reminders[r].reminder_time <= run[i].current_time
             /\ HasRecipient(r)
             /\ r \notin run[i].failed)
            => reminders[r].notification_sent

\* a run ended after it sent an email reminder and committed its flag
C2_Witness ==
    \E i \in Slots : Finished(i) /\
        \E r \in Range(run[i].queue) :
            /\ Stored(r)
            /\ reminders[r].notification_type = "email"
            /\ r \in run[i].attempted \ run[i].failed
            /\ sends[r] = 1
            /\ reminders[r].notification_sent

\* a step in which the processing of the current reminder fails or raises
FailStep(i) == TickDispatchFail(i) \/ TickRaise(i) \/ TickCommitFail(i)

\* what a failing step, the start and the end of a run must satisfy for C3
C3_Step ==
    /\ \A i \in Slots : FailStep(i) =>
          /\ reminders'[Current(i)] = reminders[Current(i)]
          /\ reminders'[Current(i)].notification_sent = FALSE
          /\ run'[i].pc = "loop"
    /\ \A s \in procs : TickStart(s) =>
          \A r \in prevFailed :
              reminders[r].notification_sent = FALSE => r \in Range(run'[FreeSlot].queue)
    /\ \A i \in Slots : TickFinish(i) =>
          \A r \in prevFailed \cap Range(run[i].queue) :
              r \in run[i].attempted \cup run[i].raised

\* C3: a failed or raising dispatch leaves the reminder's row as it was, with
\* notification_sent = false, and the tick goes on; the next tick selects the
\* reminder again (it is still unsent) and processes it up to its dispatch.
C3_FailedStaysPending == [][C3_Step]_vars

\* a reminder whose dispatch failed in the last finished run is sent by this one
C3_Witness ==
    \E i \in Slots : run[i].pc = "loop" /\
        \E r \in prevFailed \cap (run[i].attempted \ Failures(i)) :
            reminders[r].notification_sent /\ sends[r] >= 1

\* C4: notification_sent is monotonic: no step of a tick, of update_reminder,
\* update_event, move_event or bulk_move_events takes a stored reminder's flag
\* from true back to false.
C4_SentIsMonotonic ==
    [][\A r \in ReminderIds :
          (Stored(r) /\ reminders[r].notification_sent /\ reminders'[r].exists)
          => reminders'[r].notification_sent]_vars

\* a reminder that was sent and then got a new, future reminder_time from a
\* handler is still marked sent
C4_Witness ==
    \E r \in ReminderIds :
        Stored(r) /\ reminders[r].notification_sent /\ reminders[r].reminder_time > now

\* C5: with ticks that keep running and a sender that does not fail forever, a
\* stored, unsent reminder whose reminder_time has passed and whose event and
\* user exist is eventually marked sent, however often its dispatch failed.
C5_DueEventuallySent ==
    \A r \in ReminderIds :
        (/\ Stored(r)
         /\ reminders[r].notification_sent = FALSE
         /\ reminders[r].reminder_time <= now
         /\ HasRecipient(r))
        ~> (Stored(r) /\ reminders[r].notification_sent)

\* a run sent an email reminder whose time had passed before the run began, in a
\* run that follows one in which a dispatch failed
C5_Witness ==
    \E i \in Slots : Finished(i) /\ prevFailed # {} /\
        \E r \in run[i].attempted \ run[i].failed :
            /\ reminders[r].notification_type = "email"
            /\ reminders[r].reminder_time < run[i].current_time
            /\ reminders[r].notification_sent

C7_LookaheadDispatched ==
    \A i \in Slots : Finished(i) =>
        \A r \in Range(run[i].queue) :
            (Stored(r) /\ HasRecipient(r)
             /\ reminders[r].reminder_time <= run[i].current_time + LookaheadMinutes)
            => r \in run[i].attempted

\* C7, amended: a tick selects the unsent reminders with reminder_time <= now +
\* 60 s, attempts the dispatch of those with reminder_time <= now, and passes
\* over those with now < reminder_time: they are not attempted, not sent and not
\* marked by this tick.
C7_LookaheadSkipped ==
    \A i \in Slots : run[i].job = "check_reminders" =>
        /\ \A r \in Range(run[i].queue) :
              Stored(r) => reminders[r].reminder_time <= run[i].current_time + LookaheadMinutes
        /\ \A r \in Range(run[i].queue) :
              (Stored(r) /\ reminders[r].reminder_time > run[i].current_time)
              => /\ r \notin run[i].attempted
                 /\ reminders[r].notification_sent = FALSE
                 /\ sends[r] = 0
        /\ Finished(i) =>
              \A r \in Range(run[i].queue) :
                  (Stored(r) /\ HasRecipient(r)
                   /\ reminders[r].reminder_time <= run[i].current_time)
                  => r \in run[i].attempted

\* a run ended that had selected a reminder due one minute after its "now"
C7_Witness ==
    \E i \in Slots : Finished(i) /\
        \E r \in Range(run[i].queue) :
            /\ Stored(r)
            /\ HasRecipient(r)
            /\ reminders[r].reminder_time = run[i].current_time + LookaheadMinutes
            /\ r \notin run[i].attempted

\* C8: a reminder that was sent by email but whose flag was not committed when
\* the process died is left unsent and in the due set; a run that began after
\* the crash has it selected, and ends with it dispatched again (or failed
\* again): it is never left delivered, unsent and out of the scheduler's reach.
C8_CrashCausesResend ==
    \A r \in lost :
        /\ Stored(r)
        /\ reminders[r].notification_sent = FALSE =>
              /\ r \in DueQuery(now)
              /\ \A i \in Slots : run[i].job = "check_reminders" =>
                    /\ r \in Range(run[i].queue)
                    /\ Finished(i) => r \in Failures(i)

\* the duplicate: after the crash a later run sent the reminder a second time and
\* committed its flag
C8_Witness ==
    \E r \in lost : sends[r] = 2 /\ reminders[r].notification_sent

\* what a failing step, and the end of a run, must satisfy for C9
C9_Step ==
    /\ \A i \in Slots : FailStep(i) =>
          /\ run'[i].pc = "loop"
          /\ run'[i].queue = run[i].queue
          /\ run'[i].idx = run[i].idx + 1
          /\ \A r \in ReminderIds :
                reminders[r].notification_sent => reminders'[r].notification_sent
    /\ \A i \in Slots : TickFinish(i) =>
          /\ run[i].idx = Len(run[i].queue) + 1
          /\ \A r \in Range(run[i].queue) :
                (Stored(r) /\ HasRecipient(r)
                 /\ reminders[r].reminder_time <= run[i].current_time)
                => r \in run[i].attempted \cup run[i].raised
          /\ \A r \in run[i].attempted \ Failures(i) :
                Stored(r) => reminders[r].notification_sent

C10_NoOverlappingRuns ==
    \A i, k \in Slots :
        (i # k /\ run[i].pc # "idle" /\ run[k].pc # "idle" /\ run[i].sched = run[k].sched)
        => run[i].job # run[k].job

\* a run of check_reminders is still in its loop a minute after it began, a worker
\* is free, and the scheduler does not submit the job again
C10_Witness ==
    \E i \in Slots :
        /\ run[i].job = "check_reminders"
        /\ AtReminder(i)
        /\ run[i].current_time < now
        /\ \E k \in Slots : run[k].pc = "idle"
        /\ ~CanSubmit(run[i].sched, "check_reminders")

\* C11: with every send answered and no crash, a reminder is dispatched at most
\* once per running scheduler; two schedulers whose runs overlap can both select
\* a due reminder before either commits its flag, and then both dispatch it.
C11_OneSendPerScheduler ==
    \A r \in ReminderIds : sends[r] <= Cardinality(procs)

\* the runs of two schedulers have both sent the same reminder and neither has
\* committed its flag yet
C11_Witness ==
    \E i, k \in Slots : \E r \in ReminderIds :
        /\ run[i].sched # run[k].sched
        /\ run[i].pc = "commit" /\ run[k].pc = "commit"
        /\ run[i].dirty = {r} /\ run[k].dirty = {r}
        /\ reminders[r].notification_type = "email"
        /\ reminders[r].notification_sent = FALSE
        /\ sends[r] = 2

\* what a step that changes an event's start must do to its relative reminders
C12_Step ==
    \A e \in EventIds :
        (events[e].exists /\ events'[e].exists
         /\ events'[e].start_datetime # events[e].start_datetime)
        => \A r \in Recomputable(e) :
              /\ reminders'[r].exists
              /\ IF events'[e].start_datetime - reminders[r].minutes_before > now
                 THEN reminders'[r].reminder_time =
                          events'[e].start_datetime - reminders[r].minutes_before
                 ELSE /\ reminders'[r].reminder_time = reminders[r].reminder_time
                      /\ reminders'[r].notification_sent = reminders[r].notification_sent

\* C12: when update_event, move_event or bulk_move_events changes an event's
\* start to S', each relative reminder with minutes_before = m gets
\* reminder_time = S' - m exactly when S' - m is later than now; otherwise its
\* reminder_time and notification_sent stay, and it is never deleted.
C12_RecomputeOnMove == [][C12_Step]_vars

\* C13: a step that changes an event's start (update_event, move_event,
\* bulk_move_events) leaves every field of the event's absolute reminders as it
\* was.
C13_AbsoluteUntouched ==
    [][\A e \in EventIds :
          (events[e].exists /\ events'[e].exists
           /\ events'[e].start_datetime # events[e].start_datetime)
          => \A r \in RemindersOf(e) :
                reminders[r].is_relative = FALSE => reminders'[r] = reminders[r]]_vars

\* an event was moved to or before the time of its absolute reminder, which kept
\* its time
C13_Witness ==
    \E r \in ReminderIds :
        /\ Stored(r)
        /\ reminders[r].is_relative = FALSE
        /\ EventExists(reminders[r].event_id)
        /\ reminders[r].reminder_time >= events[reminders[r].event_id].start_datetime

\* C14: a reminder is terminal once sent: no step changes the reminder_time,
\* minutes_before, is_relative or notification_type of a reminder whose
\* notification_sent is true.
C14_SentIsTerminal ==
    [][\A r \in ReminderIds :
          (Stored(r) /\ reminders[r].notification_sent /\ reminders'[r].exists)
          => /\ reminders'[r].reminder_time = reminders[r].reminder_time
             /\ reminders'[r].minutes_before = reminders[r].minutes_before
             /\ reminders'[r].is_relative = reminders[r].is_relative
             /\ reminders'[r].notification_type = reminders[r].notification_type]_vars

\* reminder r is stored by this step
Created(r) == reminders[r].exists = FALSE /\ reminders'[r].exists

\* C15 (as stated): every reminder created by create_event, create_reminder or
\* create_bulk_reminders has, when it is created, a reminder_time strictly
\* earlier than its event's start.
C15_StrictlyBeforeStart ==
    [][\A r \in ReminderIds :
          Created(r)
          => reminders'[r].reminder_time
                < events'[reminders'[r].event_id].start_datetime]_vars

\* C15 (amended): a created relative reminder has minutes_before >= 0 and
\* reminder_time = start - minutes_before, so it is at or before the start and
\* equal to it for minutes_before = 0; a created absolute reminder is strictly
\* before the start.
C15_NotAfterStart ==
    [][\A r \in ReminderIds :
          Created(r)
          => LET row == reminders'[r]
                 start == events'[row.event_id].start_datetime
             IN  IF row.is_relative
                 THEN /\ row.minutes_before >= 0
                      /\ row.reminder_time = start - row.minutes_before
                 ELSE row.reminder_time < start]_vars

\* a reminder with minutes_before = 0 is stored with the start of its event as
\* its reminder_time
C15_Witness ==
    \E r \in ReminderIds :
        /\ Stored(r)
        /\ reminders[r].is_relative
        /\ reminders[r].minutes_before = 0
        /\ EventExists(reminders[r].event_id)
        /\ reminders[r].reminder_time = events[reminders[r].event_id].start_datetime

\* C16: in every reachable state no two reminders of the same event have the
\* same reminder_time.
C16_NoDuplicateTimes ==
    \A r, q \in ReminderIds :
        (Stored(r) /\ Stored(q) /\ r # q
         /\ reminders[r].event_id = reminders[q].event_id)
        => reminders[r].reminder_time # reminders[q].reminder_time

\* the reminder_time a request asks for: start - minutes_before, or the given time
Asked(e, in) ==
    IF in.minutes_before # None
    THEN events[e].start_datetime - in.minutes_before
    ELSE in.reminder_time.t

\* a request with exactly one of the two fields, asking for the time of a stored
\* reminder of its event
AsksTaken(e, in) ==
    /\ EventExists(e)
    /\ (in.minutes_before # None) # Given(in.reminder_time)
    /\ \E r \in ReminderIds :
          Stored(r) /\ reminders[r].event_id = e /\ reminders[r].reminder_time = Asked(e, in)

\* C17: a create_reminder whose computed reminder_time (start - minutes_before,
\* or the given time) is the reminder_time of a stored reminder of the same
\* event stores nothing and leaves every stored reminder as it was; when the
\* request passes the other checks it is answered with 409.
C17_DuplicateRejected ==
    [][\A e \in EventIds, in \in CreateInputs :
          (AsksTaken(e, in) /\ CreateReminder(e, in))
          => /\ reminders' = reminders
             /\ nextReminderId' = nextReminderId
             /\ ReminderCheck(e, events[e], in).ok => conflict']_vars

\* a valid request for the time of the only stored reminder was answered 409 and
\* the reminder is still the only one
C17_Witness ==
    /\ conflict
    /\ Stored(1)
    /\ \A r \in ReminderIds : r # 1 => ~Stored(r)

\* C18: every reminder stored by a creating handler (create_event,
\* create_reminder, create_bulk_reminders, the reminder copies of
\* bulk_copy_events) has a reminder_time strictly later than now when it is
\* stored: a request whose computed time is at or before now stores none.
C18_CreatedInFuture ==
    [][\A r \in ReminderIds : Created(r) => reminders'[r].reminder_time > now]_vars

\* a reminder due in the next minute, the earliest time that is accepted, is stored
C18_Witness ==
    \E r \in ReminderIds :
        /\ Stored(r)
        /\ reminders[r].notification_sent = FALSE
        /\ reminders[r].reminder_time = now + 1

\* the absolute time t is strictly after now and strictly before the start
InWindow(t, start) == now < t /\ t < start

\* create_event, asked for an event with one absolute reminder, stores the
\* reminder exactly if its time is in the window
AbsoluteInEvent ==
    \A start \in Times, in \in AbsoluteInputs :
        (nextEventId <= MaxEvents /\ nextReminderId <= MaxReminders)
        => (InWindow(in.reminder_time.t, start)
            <=> ENABLED (/\ CreateEvent(Iso(start, TRUE), NoIso, <<in>>)
                         /\ Created(nextReminderId)
                         /\ reminders'[nextReminderId].reminder_time = in.reminder_time.t
                         /\ reminders'[nextReminderId].is_relative = FALSE))

\* create_reminder, asked for an absolute time that no reminder of the event has,
\* stores the reminder exactly if the time is in the window
AbsoluteInReminder ==
    \A e \in EventIds, in \in AbsoluteInputs :
        (/\ EventExists(e)
         /\ AsksTaken(e, in) = FALSE
         /\ nextReminderId <= MaxReminders
         /\ creq.active = FALSE)
        => (InWindow(in.reminder_time.t, events[e].start_datetime)
            <=> ENABLED (/\ CreateReminder(e, in)
                         /\ Created(nextReminderId)
                         /\ reminders'[nextReminderId].reminder_time = in.reminder_time.t
                         /\ reminders'[nextReminderId].is_relative = FALSE))

Tagged(row) ==
    IF row.is_relative
    THEN row.minutes_before # None /\ row.minutes_before >= 0
    ELSE row.minutes_before = None

\* the requests with both fields, and with neither
BothOrNeither ==
    {in \in ReminderInputs :
        (in.minutes_before # None) = (in.reminder_time # NoIso)}

\* no creating handler stores anything for a request with both fields or neither
MalformedRefused ==
    \A in \in BothOrNeither :
        /\ \A e \in EventIds :
              ~ENABLED (CreateReminder(e, in) /\ reminders' # reminders)
        /\ \A e \in EventIds :
              ~ENABLED (CreateBulkReminders(<<[event_id |-> e, in |-> in]>>)
                        /\ reminders' # reminders)
        /\ \A start \in Times :
              ~ENABLED (CreateEvent(Iso(start, TRUE), NoIso, <<in>>)
                        /\ <<events, reminders>>' # <<events, reminders>>)

\* C20: create_reminder, each item of create_bulk_reminders and each reminder of
\* create_event are accepted only with exactly one of minutes_before and
\* reminder_time; a request with both or neither stores nothing; every stored
\* reminder is relative with minutes_before set, or absolute with none.
C20_ExactlyOneField ==
    /\ MalformedRefused
    /\ \A r \in ReminderIds : Stored(r) => Tagged(reminders[r])

\* a relative and an absolute reminder are stored
C20_Witness ==
    \E r, q \in ReminderIds :
        /\ Stored(r) /\ reminders[r].is_relative /\ reminders[r].minutes_before # None
        /\ Stored(q) /\ reminders[q].is_relative = FALSE /\ reminders[q].minutes_before = None

\* the items of a list that pass the checks of their own
Passing(items) ==
    {k \in 1..Len(items) : IF IsObject(items[k]) THEN BulkItem(items, k).ok ELSE FALSE}

\* create_bulk_reminders stores, for this list, a reminder for each passing item
\* and nothing else
StoresPassing(items) ==
    ENABLED (/\ CreateBulkReminders(items)
             /\ nextReminderId' = nextReminderId + Cardinality(Passing(items))
             /\ \A k \in Passing(items) :
                   \E r \in ReminderIds : Created(r) /\ reminders'[r] = BulkItem(items, k).row)

\* lists of valid and invalid objects and of items that are no objects
MixedLists ==
    UNION {[1..n -> [event_id : EventIds,
                     in : SmallInputs \cup {Relative(Negative, "email")}]
                    \cup {NullItem}] : n \in 1..MaxReminders}

EventData == <<events, rules, reminders, links>>

CreateChanges(c) ==
    CreateEventFull(c.start, c.end, c.ins, c.ids, c.rule) /\ EventData' # EventData

UpdateChanges(e, in, cats, rule) == UpdateEventFull(e, in, cats, rule) /\ EventData' # EventData

MoveChanges(e, in) == MoveEvent(e, in) /\ EventData' # EventData

InvalidRule(rule) == rule.kind = "data" /\ validate_recurrence_rule(rule.data) # <<>>

\* C22: when create_event, update_event or move_event answers with an error, the
\* events, rules, reminders and category links are what they were before the
\* call, and a request with an invalid rule is answered with an error (400 from
\* create_event; from update_event 400, or the 500 of an earlier comparison)
C22_AllOrNothing ==
    /\ \A c \in TxnCreates :
          /\ CreateEventStatus(c.start, c.end, c.ins, c.ids, c.rule) # 201
                => ~ENABLED CreateChanges(c)
          /\ InvalidRule(c.rule)
                => CreateEventStatus(c.start, c.end, c.ins, c.ids, c.rule) = 400
    /\ \A e \in EventIds, in \in TxnUpdates, cats \in TxnCategories, rule \in TxnRules :
          EventExists(e) =>
             /\ UpdateEventStatus(e, in, cats, rule) # 200
                   => ~ENABLED UpdateChanges(e, in, cats, rule)
             /\ InvalidRule(rule) => UpdateEventStatus(e, in, cats, rule) # 200
    /\ \A e \in EventIds, in \in TxnMoves :
          EventExists(e) /\ MoveEventStatus(e, in) # 200 => ~ENABLED MoveChanges(e, in)

\* an event with a rule, a reminder and a category, and three refused requests
\* that had assigned something before they were refused: a move whose end is not
\* after the new start, an update whose rule is invalid after its categories
\* were set, an update whose rule the commit refuses
C22_Witness ==
    \E e \in EventIds :
        /\ EventExists(e) /\ rules[e].exists /\ links[e] # {} /\ RemindersOf(e) # {}
        /\ \E in \in TxnMoves :
              /\ MoveEventStage(e, in) = "end400"
              /\ MoveEventEvents(e, in, "end400") # events
              /\ ENABLED MoveEvent(e, in)
        /\ \E in \in TxnUpdates, rule \in TxnRules :
              /\ UpdateEventStage(e, in, SetCategories({}), rule) = "rule"
              /\ UpdateEventLinks(e, SetCategories({}), "rule") # links
              /\ ENABLED UpdateEventFull(e, in, SetCategories({}), rule)
        /\ \E in \in TxnUpdates, rule \in TxnRules :
              /\ UpdateEventStage(e, in, KeepCategories, rule) = "commit"
              /\ UpdateEventRules(e, rule, "commit") # rules


\* ---- validate_recurrence_rule
IsSet(x) == x # Null

\* the defects of a rule: frequency missing or unknown, interval not a positive
\* integer, both terminators, a day, week or count out of range, a weekday code
\* outside MON..SUN
Defective(d) ==
    \/ d.frequency.k # "str" \/ d.frequency.s \notin Frequencies
    \/ d.interval.k # "int" \/ d.interval.n < 1
    \/ IsSet(d.end_date) /\ IsSet(d.occurrence_count)
    \/ IsSet(d.day_of_month) /\ (d.day_of_month.k # "int" \/ d.day_of_month.n \notin 1..31)
    \/ IsSet(d.week_of_month) /\ (d.week_of_month.k # "int" \/ d.week_of_month.n \notin 1..5)
    \/ IsSet(d.occurrence_count)
          /\ (d.occurrence_count.k # "int" \/ d.occurrence_count.n < 1)
    \/ \E k \in 1..Len(d.days_of_week) : d.days_of_week[k] \notin Weekdays
    \/ IsSet(d.day_of_week) /\ (d.day_of_week.k # "str" \/ d.day_of_week.s \notin Weekdays)

Validated == call.op = "validate" /\ call.done

\* C23: validate_recurrence_rule returns a non-empty list exactly for the rules
\* with one of the listed defects
C23_ErrorsIffDefective ==
    Validated => (call.errors # <<>> <=> Defective(call.data))

\* side results: a non-empty list is always due to a listed defect; the defects
\* the function reports in every rule
C23_ErrorsOnlyForDefects == Validated /\ call.errors # <<>> => Defective(call.data)

ReportedDefect(d) ==
    \/ d.frequency.k # "str" \/ d.frequency.s \notin Frequencies
    \/ d.interval.k # "int" \/ d.interval.n < 1
    \/ Truthy(d.end_date) /\ Truthy(d.occurrence_count)
    \/ Truthy(d.occurrence_count) /\ d.occurrence_count.n < 1
    \/ IsFrequency(d, "MONTHLY") /\ Truthy(d.day_of_month) /\ d.day_of_month.n \notin 1..31
    \/ IsFrequency(d, "MONTHLY") /\ Truthy(d.week_of_month) /\ d.week_of_month.n \notin 1..5
    \/ IsFrequency(d, "WEEKLY") /\ \E k \in 1..Len(d.days_of_week) : d.days_of_week[k] \notin Weekdays

C23_ErrorsIffReported == Validated => (call.errors # <<>> <=> ReportedDefect(call.data))


\* ---- generate_occurrences
Generated == call.op = "generate" /\ call.calls >= 1

\* the result is a list of occurrences, not [event]
Expanded == Generated /\ ~call.result.fallback

Starts(list) == [i \in 1..Len(list) |-> list[i].start_datetime]

\* the n least elements of a set of days
RECURSIVE FirstN(_, _)
FirstN(S, n) ==
    IF Cardinality(S) <= n THEN S
    ELSE IF n <= 0 THEN {}
    ELSE {Least(S)} \cup FirstN(S \ {Least(S)}, n - 1)

\* the week of the month a day falls in, and whether it is the last one
WeekOfMonth(d) == (DayOfMonth(d) - 1) \div 7 + 1
LastWeekOfMonth(d) == DayOfMonth(d) + 7 > MonthLengths[MonthOf(d)]

\* the days a rule names, from the event's start on
OnPattern(rule, anchor, d) ==
    /\ d >= anchor
    /\ IF IsFrequency(rule, "DAILY") THEN (d - anchor) % IntervalOf(rule) = 0
       ELSE IF IsFrequency(rule, "WEEKLY")
       THEN /\ ((d \div 7) - (anchor \div 7)) % IntervalOf(rule) = 0
            /\ IF \E k \in 1..Len(rule.days_of_week) : rule.days_of_week[k] \in Weekdays
               THEN \E k \in 1..Len(rule.days_of_week) :
                        WeekdayCodes[WeekdayOf(d) + 1] = rule.days_of_week[k]
               ELSE WeekdayOf(d) = WeekdayOf(anchor)
       ELSE IF IsFrequency(rule, "MONTHLY")
       THEN /\ (MonthOf(d) - MonthOf(anchor)) % IntervalOf(rule) = 0
            /\ IF Truthy(rule.day_of_month) THEN DayOfMonth(d) = rule.day_of_month.n
               ELSE IF Truthy(rule.week_of_month) /\ Truthy(rule.day_of_week)
               THEN /\ WeekdayCodes[WeekdayOf(d) + 1] = rule.day_of_week.s
                    /\ IF rule.week_of_month.n = 5 THEN LastWeekOfMonth(d)
                       ELSE WeekOfMonth(d) = rule.week_of_month.n
               ELSE DayOfMonth(d) = DayOfMonth(anchor)
       ELSE d = anchor

PatternDays(c) == {d \in 0..Horizon : OnPattern(c.rule, c.event.start_datetime, d)}

\* the series of the rule: ended by its end_date or after occurrence_count days
Series(c) ==
    IF Truthy(c.rule.end_date) THEN {d \in PatternDays(c) : d <= c.rule.end_date.n}
    ELSE IF Truthy(c.rule.occurrence_count)
         THEN FirstN(PatternDays(c), c.rule.occurrence_count.n)
         ELSE PatternDays(c)

InWindowDays(c, S) == {d \in S : WindowStart(c) <= d /\ d <= WindowEnd(c)}

Ascending(list) ==
    \A i, j \in 1..Len(list) : i < j => list[i].start_datetime < list[j].start_datetime

SeriesInWindow == InWindowDays(call.args, Series(call.args))

C25_InWindow ==
    Expanded =>
        \A i \in 1..Len(call.result.list) :
            /\ WindowStart(call.args) <= call.result.list[i].start_datetime
            /\ call.result.list[i].start_datetime <= WindowEnd(call.args)

C25_AtMostMax == Generated => Len(call.result.list) <= call.args.max_occurrences

\* C25: every occurrence starts inside the closed window, the list has at most
\* max_occurrences elements, and they are the earliest max_occurrences days of
\* the series inside the window
C25_EarliestInWindow ==
    /\ C25_InWindow
    /\ C25_AtMostMax
    /\ Expanded =>
          Range(Starts(call.result.list))
             = FirstN(SeriesInWindow, call.args.max_occurrences)

\* the same, for the calls whose occurrence_count is not above max_occurrences
C25_EarliestUnlessCapped ==
    Expanded /\ (Truthy(call.args.rule.occurrence_count)
                    => call.args.rule.occurrence_count.n <= call.args.max_occurrences)
        => Range(Starts(call.result.list))
              = FirstN(SeriesInWindow, call.args.max_occurrences)


\* a call whose rule has an occurrence_count and no end_date
Counted == Generated /\ Truthy(call.args.rule.occurrence_count)

\* the first occurrence_count days of the rule, counted from the event's start
CountedDays == FirstN(PatternDays(call.args), call.args.rule.occurrence_count.n)

\* how many of them are before the window
BeforeWindow == Cardinality({d \in CountedDays : d < WindowStart(call.args)})

WindowHoldsAll ==
    /\ Cardinality(CountedDays) = call.args.rule.occurrence_count.n
    /\ InWindowDays(call.args, CountedDays) = CountedDays

\* C26: with occurrence_count = n the occurrences are the first n days of the
\* series counted from the event's start, clipped to the window: exactly n when
\* the window holds them all, at most n - k when it begins after the k-th
C26_CountedFromAnchor ==
    Counted =>
        /\ Expanded
        /\ Range(Starts(call.result.list)) \subseteq CountedDays
        /\ WindowHoldsAll => Len(call.result.list) = call.args.rule.occurrence_count.n
        /\ Len(call.result.list) <= call.args.rule.occurrence_count.n - BeforeWindow

\* the same for the rules that are expanded, with the cap of max_occurrences
C26_CountedWhenExpanded ==
    Counted /\ Expanded =>
        /\ Range(Starts(call.result.list)) \subseteq CountedDays
        /\ WindowHoldsAll =>
              Len(call.result.list)
                 = Min(call.args.rule.occurrence_count.n, call.args.max_occurrences)
        /\ Len(call.result.list) <= call.args.rule.occurrence_count.n - BeforeWindow

\* a counted rule is answered with [event] only when it is YEARLY, of an unknown
\* frequency, or MONTHLY by week_of_month and day_of_week
C26_NotExpanded ==
    Counted /\ ~Expanded =>
        \/ IsFrequency(call.args.rule, "YEARLY")
        \/ call.args.rule.frequency.s \notin Frequencies
        \/ MonthlyByWeekdayString(call.args.rule)


Unended(rule) == ~Truthy(rule.end_date) /\ ~Truthy(rule.occurrence_count)

C28_DurationKept ==
    Generated =>
        \A i \in 1..Len(call.result.list) :
            LET occurrence == call.result.list[i]
                event == call.args.event
            IN  IF event.end_datetime # None
                THEN /\ occurrence.end_datetime # None
                     /\ occurrence.end_datetime - occurrence.start_datetime
                           = event.end_datetime - event.start_datetime
                ELSE occurrence.end_datetime = None

\* an event with an end, expanded to two or more occurrences
C28_Witness ==
    /\ Expanded
    /\ call.args.event.end_datetime # None
    /\ Len(call.result.list) >= 2
    /\ call.result.list[2].start_datetime > call.args.event.start_datetime


\* a call whose rule is MONTHLY with a day_of_month
ByMonthDay ==
    Generated /\ IsFrequency(call.args.rule, "MONTHLY") /\ Truthy(call.args.rule.day_of_month)

\* the months of the rule: every interval-th one from the month of the event
RuleMonths ==
    {m \in MonthOf(call.args.event.start_datetime)..12 :
        (m - MonthOf(call.args.event.start_datetime)) % IntervalOf(call.args.rule) = 0}

\* the call of the example: event on 2024-01-31, interval 1, day_of_month 31,
\* window from the event's start to 2024-04-30
SkipExample ==
    /\ ByMonthDay
    /\ call.args.event.start_datetime = 30
    /\ call.args.rule.day_of_month = Num(31)
    /\ IntervalOf(call.args.rule) = 1
    /\ Unended(call.args.rule)
    /\ call.args.start_date = NoDate
    /\ call.args.end_date = Date(120)
    /\ call.args.max_occurrences = 1000

\* C29: a MONTHLY rule with day_of_month d yields day d of every interval-th
\* month that has one and nothing for a month that has none; from 2024-01-31 to
\* 2024-04-30 with d = 31 exactly 2024-01-31 and 2024-03-31
C29_MonthSkipped ==
    ByMonthDay =>
        /\ Expanded
        /\ \A i \in 1..Len(call.result.list) :
              /\ DayOfMonth(call.result.list[i].start_datetime) = call.args.rule.day_of_month.n
              /\ MonthOf(call.result.list[i].start_datetime) \in RuleMonths
        /\ Unended(call.args.rule) /\ call.args.max_occurrences = 1000 =>
              \A m \in RuleMonths :
                  LET day == MonthStart(m) + call.args.rule.day_of_month.n - 1
                  IN  /\ call.args.rule.day_of_month.n <= MonthLengths[m]
                      /\ day >= call.args.event.start_datetime
                      /\ WindowStart(call.args) <= day /\ day <= WindowEnd(call.args)
                      => day \in Range(Starts(call.result.list))
        /\ SkipExample => Starts(call.result.list) = <<30, 90>>

C29_Witness == SkipExample /\ Len(call.result.list) = 2


\* a call whose rule is MONTHLY with week_of_month and day_of_week and no
\* day_of_month
ByNthWeekday ==
    /\ Generated
    /\ IsFrequency(call.args.rule, "MONTHLY")
    /\ ~Truthy(call.args.rule.day_of_month)
    /\ Truthy(call.args.rule.week_of_month)
    /\ Truthy(call.args.rule.day_of_week)

\* C30: a MONTHLY rule with week_of_month w and day_of_week d yields the w-th
\* weekday d of each interval-th month, the last one for w = 5, as a list of
\* occurrences and not as the fallback [event]
C30_NthWeekday ==
    ByNthWeekday =>
        /\ Expanded
        /\ Range(Starts(call.result.list))
              = FirstN(SeriesInWindow, call.args.max_occurrences)

\* such a rule is always answered with the fallback
C30_AlwaysFallback == ByNthWeekday => call.result.fallback


\* a call whose rule is WEEKLY
ByWeek == Generated /\ IsFrequency(call.args.rule, "WEEKLY")

\* the weekdays of the rule: those of days_of_week, else the event's own
RuleWeekdays ==
    IF call.args.rule.days_of_week = <<>>
    THEN {WeekdayOf(call.args.event.start_datetime)}
    ELSE {WeekdayNumber(call.args.rule.days_of_week[k]) :
             k \in 1..Len(call.args.rule.days_of_week)}

\* a day in an interval-th week counted from the week of the event
InRuleWeek(d) ==
    ((d \div 7) - (call.args.event.start_datetime \div 7)) % IntervalOf(call.args.rule) = 0

\* the same call with days_of_week in another order
Reordered(w) == [call.args EXCEPT !.rule.days_of_week = w]

\* the call of the example: event on Monday 2024-01-01, MON, WED and FRI,
\* interval 1, the window of that week
WeekExample ==
    /\ ByWeek
    /\ call.args.event.start_datetime = 0
    /\ Range(call.args.rule.days_of_week) = {"MON", "WED", "FRI"}
    /\ IntervalOf(call.args.rule) = 1
    /\ Unended(call.args.rule)
    /\ call.args.start_date \in {NoDate, Date(0)}
    /\ call.args.end_date = Date(6)
    /\ call.args.max_occurrences = 1000

\* C31: a WEEKLY rule yields one occurrence for each of its weekdays (the
\* event's own without days_of_week) in each interval-th week, in ascending
\* order, the same for every order of the codes; MON, WED, FRI from Monday
\* 2024-01-01 in a window of one week yields three occurrences
C31_WeeklyByWeekday ==
    ByWeek =>
        /\ Expanded
        /\ Ascending(call.result.list)
        /\ \A i \in 1..Len(call.result.list) :
              /\ WeekdayOf(call.result.list[i].start_datetime) \in RuleWeekdays
              /\ InRuleWeek(call.result.list[i].start_datetime)
        /\ Unended(call.args.rule) /\ call.args.max_occurrences = 1000 =>
              \A d \in WindowStart(call.args)..WindowEnd(call.args) :
                  /\ d >= call.args.event.start_datetime
                  /\ WeekdayOf(d) \in RuleWeekdays
                  /\ InRuleWeek(d)
                  => d \in Range(Starts(call.result.list))
        /\ \A w \in GenWeekdays :
              Range(w) = Range(call.args.rule.days_of_week) /\ w # <<>>
                 => generate_occurrences(Reordered(w)) = call.result
        /\ WeekExample => Starts(call.result.list) = <<0, 2, 4>>

\* the example called with the codes in the order FRI, WED, MON
C31_Witness ==
    /\ WeekExample
    /\ call.args.rule.days_of_week = <<"FRI", "WED", "MON">>
    /\ Len(call.result.list) = 3


\* ---- deleted events
\* an event the step removes
Removed(e) == events[e].exists /\ ~events'[e].exists

\* the step hands a reminder to a sender, or sets its flag
Dispatches(r) ==
    \/ sends'[r] # sends[r]
    \/ \E i \in Slots : r \in run'[i].dirty /\ r \notin run[i].dirty

C32_Step ==
    /\ \A e \in EventIds :
          Removed(e) =>
             /\ ~rules'[e].exists
             /\ \A r \in ReminderIds : reminders'[r].exists => reminders'[r].event_id # e
    /\ \A r \in ReminderIds :
          reminders'[r].exists => events'[reminders'[r].event_id].exists
    /\ \A r \in ReminderIds :
          Dispatches(r) => reminders[r].exists /\ events[reminders[r].event_id].exists

\* C32: a step that removes an event leaves no rule and no reminder of it, every
\* stored reminder references a stored event, and the scheduler hands no
\* reminder to a sender whose event is gone
C32_NoOrphans == [][C32_Step]_vars

\* a tick that has selected a reminder whose event, with its rule, has been
\* deleted since
C32_Witness ==
    \E i \in Slots :
        /\ AtReminder(i)
        /\ ~Stored(Current(i))
        /\ \E e \in EventIds : e < nextEventId /\ ~EventExists(e) /\ ~rules[e].exists


\* ---- token cleanup
\* the step ends a tick of cleanup_old_tokens in slot i
SweepEnds(i) == run[i].job = "cleanup_tokens" /\ run[i].pc = "sweep" /\ run'[i].pc = "idle"

C33_Step ==
    \A i \in Slots :
        SweepEnds(i) =>
            /\ \A k \in tokens' : k.expires_at >= run[i].current_time
            /\ \A k \in tokens : k.expires_at >= run[i].current_time => k \in tokens'
            /\ UNCHANGED <<users, events, reminders, rules, links, password_hash>>

\* C33: a tick of cleanup_old_tokens leaves no token of either kind that expired
\* before the tick's now, keeps every other token, used or not, as it was, and
\* changes no reminder, event or user
C33_SweepsExpiredOnly == [][C33_Step]_vars

\* a tick has deleted a token, and a used token and one of each kind are kept
\* beside a stored event with its reminder
C33_Witness ==
    /\ Cardinality(tokens) < nextTokenId - 1
    /\ \E k \in tokens : k.used
    /\ \E k \in tokens : k.kind = "email_verification"
    /\ \E k \in tokens : k.kind = "password_reset"
    /\ \E r \in ReminderIds : Stored(r)
    /\ \A i \in Slots : run[i].pc = "idle"


\* C34: after a tick of cleanup_old_tokens in which the delete of one expired
\* token raised, the other tokens that had expired before the tick's now are
\* deleted
C34_OthersStillDeleted ==
    cleanupError.raised =>
        \A k \in tokens : k.expires_at < cleanupError.at => k.token = cleanupError.token


\* ---- the fallback
\* the frequency of the rule of the call is none of the four
UnknownFrequency == call.args.rule.frequency.s \notin {"DAILY", "WEEKLY", "MONTHLY", "YEARLY"}

\* the rule of the call makes rrule raise: byweekday is the string built for a
\* MONTHLY rule by week_of_month and day_of_week
RruleRaises ==
    /\ call.args.rule.frequency = Str("MONTHLY")
    /\ call.args.rule.day_of_month = Null
    /\ call.args.rule.week_of_month # Null
    /\ call.args.rule.day_of_week # Null

\* the event itself, once
JustTheEvent(result) ==
    /\ Len(result.list) = 1
    /\ result.list[1].start_datetime = call.args.event.start_datetime
    /\ result.list[1].end_datetime = call.args.event.end_datetime
    /\ result.fallback

\* C35: a call with a rule of an unknown frequency, or with a rule that makes
\* rrule raise, returns the one-element list of the event itself, whatever the
\* window, the end condition and max_occurrences, and so does a second call
C35_Fallback ==
    /\ Generated /\ (UnknownFrequency \/ RruleRaises) => JustTheEvent(call.result)
    /\ call.op = "generate" /\ call.calls = 2 /\ (UnknownFrequency \/ RruleRaises)
          => JustTheEvent(call.again)

\* an HOURLY rule for an event of 2024-01-01, asked for a window that begins
\* after the event
C35_Witness ==
    /\ Generated
    /\ call.args.rule.frequency = Str("HOURLY")
    /\ call.args.event.start_datetime = 0
    /\ call.args.start_date = Date(10)
    /\ JustTheEvent(call.result)


\* ---- reminders selected by the lookahead
\* run i has reminder r in hand and r is later than the "now" of the run
Early(i, r) ==
    /\ AtReminder(i)
    /\ Current(i) = r
    /\ reminders[r].exists
    /\ reminders[r].reminder_time > run[i].current_time

\* the step counts r as attempted, hands it to the sender or sets its flag
Touches(r) ==
    \/ sends'[r] # sends[r]
    \/ reminders[r].exists /\ reminders'[r] # reminders[r]
    \/ \E k \in Slots : r \in run'[k].attempted \ run[k].attempted
    \/ \E k \in Slots : r \in run'[k].dirty \ run[k].dirty

C36_Step ==
    /\ \A i \in Slots, r \in ReminderIds :
          Early(i, r) /\ run'[i] # run[i] =>
             /\ ~Touches(r)
             /\ IF run'[i].pc = "idle" THEN r \notin prevFailed'
                ELSE /\ run'[i].pc = "loop"
                     /\ run'[i].idx = run[i].idx + 1
                     /\ run'[i].queue = run[i].queue
    /\ \A r \in ReminderIds :
          (reminders[r].exists /\ ~reminders[r].notification_sent /\ reminders'[r].exists
           /\ reminders'[r].notification_sent)
          => \E i \in Slots : r \in run[i].dirty
                              /\ reminders[r].reminder_time <= run[i].current_time
    /\ \A r \in ReminderIds :
          sends'[r] # sends[r] =>
             \E i \in Slots : AtReminder(i) /\ Current(i) = r
                              /\ reminders[r].reminder_time <= run[i].current_time

\* C36: a tick that comes to a selected reminder later than its own "now" goes on
\* to the next one (unless its process dies there) without sending, marking or
\* writing anything for it and without counting it as failed; a flag is
\* set and a notification is sent only for a reminder that is not later than the
\* "now" of the tick that does it
C36_EarlyUntouched == [][C36_Step]_vars

\* a tick has passed over a reminder the lookahead selected one minute early,
\* and the reminder is as it was
C36_Witness ==
    \E i \in Slots : \E j \in 1..Len(run[i].queue) :
        /\ run[i].pc = "loop"
        /\ j < run[i].idx
        /\ reminders[run[i].queue[j]].exists
        /\ reminders[run[i].queue[j]].reminder_time = run[i].current_time + LookaheadMinutes
        /\ ~reminders[run[i].queue[j]].notification_sent
        /\ sends[run[i].queue[j]] = 0


\* ---- at most one dispatch
\* C37: with one scheduler, every send answered and every commit done, a
\* reminder is handed to the email sender only while it has never been sent and
\* its flag is unset, whatever update_reminder, update_event, move_event,
\* bulk_move_events and delete_event did to it or to its event before
C37_AtMostOnce ==
    [][\A r \in ReminderIds :
          sends'[r] # sends[r] =>
             /\ sends[r] = 0
             /\ sends'[r] = 1
             /\ reminders[r].exists
             /\ reminders[r].notification_sent = FALSE]_vars

\* a reminder was sent once, its event was moved afterwards, and a later tick
\* that began after the reminder's time has ended without selecting it
C37_Witness ==
    \E r \in ReminderIds : \E i \in Slots :
        /\ Finished(i)
        /\ Stored(r)
        /\ sends[r] = 1
        /\ reminders[r].notification_sent
        /\ reminders[r].is_relative
        /\ EventExists(reminders[r].event_id)
        /\ events[reminders[r].event_id].start_datetime - reminders[r].minutes_before
              # reminders[r].reminder_time
        /\ reminders[r].reminder_time <= run[i].current_time
        /\ r \notin Range(run[i].queue)
        /\ run[i].attempted = {}


\* ---- bulk_move_events and its report
C38_Step ==
    \A ids \in SUBSET EventIds, offset \in Offsets :
        BulkMoveEvents(ids, offset) =>
            /\ \A e \in BulkMoveErrors(ids, offset) :
                  /\ events'[e] = events[e]
                  /\ \A r \in RemindersOf(e) : reminders'[r] = reminders[r]
            /\ \A e \in ids :
                  EventExists(e) =>
                     (events'[e].start_datetime = events[e].start_datetime + offset
                        <=> e \in BulkMoveUpdated(ids, offset))

\* C38: bulk_move_events leaves an event it reports in errors with its times and
\* reminders as they were, and moves exactly the events it reports as updated
C38_ErrorsUnmoved == [][C38_Step]_vars


\* ---- password-reset tokens
\* the tokens of user u that reset_password would accept now
Usable(u) ==
    {k \in tokens : k.kind = "password_reset" /\ k.user_id = u /\ ~k.used /\ now <= k.expires_at}

\* C39: at any time a user has at most one password-reset token that is unused
\* and not expired
C39_OneUsable == \A u \in Users : Cardinality(Usable(u)) <= 1

\* reset_password accepts a token only while it is stored, unused and not
\* expired, marks it used, and accepts no token twice
C39_AcceptedOnce ==
    [][\A tok \in TokenIds :
          accepted'[tok] # accepted[tok] =>
             /\ accepted[tok] = 0
             /\ \E k \in tokens : k.kind = "password_reset" /\ k.token = tok
                                  /\ ~k.used /\ now <= k.expires_at
             /\ \E k \in tokens' : k.token = tok /\ k.used]_vars


\* ---- rate limiter
\* the requests of a key let through in the window that ends with the j-th of them
AdmittedInWindow(key, j) ==
    {k \in 1..Len(admitted[key]) :
        /\ admitted[key][k] > admitted[key][j] - Window
        /\ admitted[key][k] <= admitted[key][j]}

\* C40: for every key at most Limit requests are let through in any window of
\* Window seconds, with several threads inside the limiter for the same key
C40_WindowBound ==
    \A key \in Keys : \A j \in 1..Len(admitted[key]) : Cardinality(AdmittedInWindow(key, j)) <= Limit

\* only requests that were let through are recorded against a key
C40_RejectedNotRecorded ==
    \A key \in Keys : \A k \in 1..Len(requests[key]) :
        \E j \in 1..Len(admitted[key]) : admitted[key][j] = requests[key][k]

====
